---- MODULE Spec2Model ----
(***************************************************************************)
(* A model of fgroup's file-tree grouping engine: FileTreeNode             *)
(* (src/fgroup/filetree.py), FileGrouper and DistinctFileTreeNode          *)
(* (src/fgroup/grouper.py), the path and glob helpers they use             *)
(* (src/fgroup/util.py) and the front end group_from (src/fgroup/file.py). *)
(*                                                                         *)
(* The tree is a heap of node objects: the generators of the engine hold   *)
(* references to nodes that a later collapse or prune detaches, so a node  *)
(* is named by an object id, never by its path.  A generator is modelled   *)
(* by running its body with each yield replaced by the consumer of the     *)
(* yielded node (Yield), which is what the lazy evaluation of Python's     *)
(* generators amounts to in a single thread.                               *)
(***************************************************************************)
EXTENDS Integers, Sequences, FiniteSets, TLC

VARIABLES
    fs,        \* the filesystem snapshot under root: [dirs, files], sets of paths
    ord,       \* the order in which os.listdir / glob enumerate the names of a directory
    distinct,  \* FileGrouper(distinct=...)
    absolute,  \* FileGrouper(absolute=...)
    config,    \* the entries of the pattern map loaded so far, in map order
    tree,      \* the heap of the nodes reachable from the root: id -> node
    groups,    \* FileGrouper.groups: group -> list of paths (<<>>: no such key)
    weights,   \* FileGrouper.weights: path -> weight
    matched,   \* history: the paths of the nodes a pattern of the map yielded
    psets,     \* history: the ancestor sets the ".." branch yielded, in yield order
    loaded,    \* history: the paths of the directories yielded to a nested map
    globbed,   \* history: path -> the number of glob_children calls on its node
    made,      \* history: path -> the number of nodes created beneath it
    guarded,   \* history: per run of the ".." branch, the guarded parents and
               \* whether each hung in the tree before and after the prune
    calls,     \* history: what the calls of prune, locate and descendants
               \* found and left, and the values of prune_guard seen
    pc,        \* "start" before group_from runs, "load" while FileGrouper.load
               \* runs, then "done"; "error" once group_from has raised
    args,      \* the arguments of group_from: the config file and the options
    nfiles,    \* the pattern map group_from hands to FileGrouper, in map order
    overrides, \* FileGrouper.overrides: group -> replacement group
    probe      \* a method of one node called on its own on the tree: the method,
               \* the node, and the heap and output it leaves (the tree stays)

vars == <<fs, ord, distinct, absolute, config, tree, groups, weights, matched, psets, loaded,
          globbed, made, guarded, calls, pc, args, nfiles, overrides, probe>>

(***************************************************************************)
(* Bounds of the model.                                                    *)
(***************************************************************************)
\* The number of entries of the pattern map.
MaxEntries == 2

(***************************************************************************)
(* Names, paths and the filesystem.                                        *)
(***************************************************************************)
Names == {"a", "b", "m"}

DEFAULT_GROUP == "unknown"

\* Python's None, for a node's group and for visit()'s default argument.
None == "None"

\* The group names of the pattern map.
Groups == {"g1", "g2"}

AllGroups == Groups \cup {DEFAULT_GROUP}

\* Python's order of the strings that occur as path segments.
\* The root directory of the model is /r: the segments split_path gives for
\* its absolute path.
AbsRoot == <<"", "r">>

Rank == [n \in Names \cup {".", "", "r"} |->
            CASE n = "" -> 0 [] n = "." -> 1 [] n = "a" -> 2 [] n = "b" -> 3
              [] n = "m" -> 4 [] n = "r" -> 5]

\* The root is the empty path; every other path is the sequence of its segments.
Root == <<>>

\* os.path.normpath on the segments of a path: "." segments vanish.
Norm(p) == SelectSeq(p, LAMBDA x : x # ".")

\* os.path.relpath(path, root) followed by split_path: the root itself is ".".
RelPath(p) == IF p = Root THEN <<".">> ELSE p

\* The path as the outputs hold it: relative to the root, or with
\* absolute=True the absolute path of the node.
OutPath(p) == IF absolute THEN AbsRoot \o p ELSE RelPath(p)

IsPrefix(p, q) == Len(p) <= Len(q) /\ SubSeq(q, 1, Len(p)) = p

StrictPrefix(p, q) == Len(p) < Len(q) /\ SubSeq(q, 1, Len(p)) = p

\* The filesystems of the model: directories and files under the root.
FS1 == [dirs |-> {<<"a">>, <<"a", "b">>},
        files |-> {<<"a", "m">>, <<"a", "b", "m">>, <<"b">>}]
FS2 == [dirs |-> {<<"a">>, <<"a", "a">>, <<"b">>},
        files |-> {<<"a", "a", "m">>, <<"a", "b">>, <<"b", "a">>}]
FS3 == [dirs |-> {<<"a">>, <<"b">>},
        files |-> {<<"b", "m">>, <<"m">>}]

FileSystems == {FS1, FS2, FS3}

Entries(f) == f.dirs \cup f.files

Exists(f, p) == p = Root \/ p \in Entries(f)

IsDir(f, p) == p = Root \/ p \in f.dirs

\* The enumeration orders of a directory's names.
Orders == {<<"a", "b", "m">>, <<"m", "b", "a">>, <<"b", "m", "a">>}

\* util.list_path: the names in a directory, in the enumeration order; empty
\* for a file or a missing path.
list_path(f, o, p) ==
    IF IsDir(f, p) THEN SelectSeq(o, LAMBDA n : Exists(f, Append(p, n))) ELSE <<>>

(***************************************************************************)
(* Sequences.                                                              *)
(***************************************************************************)
Range(s) == {s[i] : i \in 1..Len(s)}

Remove(s, x) == SelectSeq(s, LAMBDA y : y # x)

\* list.index: the first position of x in s (0 when absent).
IndexOf(s, x) ==
    IF x \in Range(s) THEN CHOOSE i \in 1..Len(s) : s[i] = x /\ \A j \in 1..(i-1) : s[j] # x
    ELSE 0

\* Comparison of two lists of path segments, as Python compares lists of strings.
RECURSIVE PathLess(_, _)
PathLess(p, q) ==
    IF p = <<>> THEN q # <<>>
    ELSE IF q = <<>> THEN FALSE
    ELSE IF Head(p) = Head(q) THEN PathLess(Tail(p), Tail(q))
    ELSE Rank[Head(p)] < Rank[Head(q)]

\* list.sort(key=split_path) on a list of paths (a stable insertion sort).
RECURSIVE InsertPath(_, _)
InsertPath(sorted, p) ==
    IF sorted = <<>> THEN <<p>>
    ELSE IF PathLess(p, Head(sorted)) THEN <<p>> \o sorted
    ELSE <<Head(sorted)>> \o InsertPath(Tail(sorted), p)

RECURSIVE SortPaths(_)
SortPaths(s) ==
    IF s = <<>> THEN <<>> ELSE InsertPath(SortPaths(SubSeq(s, 1, Len(s) - 1)), s[Len(s)])

(***************************************************************************)
(* util.glob_root: glob.iglob(pattern, root_dir=root, recursive=True,      *)
(* include_hidden=True) for a pattern without "**" (the engine hands the   *)
(* resolver no other).  A pattern is the list of its segments: a name, "*" *)
(* or ".".  The matches keep the "." segments of the pattern, and come in  *)
(* the order of the directory enumeration.                                 *)
(***************************************************************************)
\* The names in directory base that one pattern segment matches.
SegMatches(f, o, base, seg) ==
    IF ~IsDir(f, base) THEN <<>>
    ELSE IF seg = "." THEN <<".">>
    ELSE IF seg = "*" THEN list_path(f, o, base)
    ELSE IF Exists(f, Append(base, seg)) THEN <<seg>>
    ELSE <<>>

RECURSIVE GlobFrom(_, _, _, _, _, _)
RECURSIVE GlobEach(_, _, _, _, _, _, _)
\* The matches of the segments segs below root/pre, pre being matched already.
GlobFrom(f, o, root, pre, segs, dirs_only) ==
    IF segs = <<>> THEN
        IF dirs_only /\ ~IsDir(f, root \o Norm(pre)) THEN <<>> ELSE <<pre>>
    ELSE GlobEach(f, o, root, pre,
                  SegMatches(f, o, root \o Norm(pre), Head(segs)), Tail(segs), dirs_only)

GlobEach(f, o, root, pre, cands, rest, dirs_only) ==
    IF cands = <<>> THEN <<>>
    ELSE GlobFrom(f, o, root, Append(pre, Head(cands)), rest, dirs_only)
         \o GlobEach(f, o, root, pre, Tail(cands), rest, dirs_only)

glob_root(f, o, root, segs, dirs_only) ==
    IF segs = <<>> \/ segs = <<"">> THEN <<>>
    ELSE GlobFrom(f, o, root, <<>>, segs, dirs_only)

(***************************************************************************)
(* The heap of FileTreeNode objects.  The engine state threaded through an *)
(* operation is s = [h, next, acc, out, yielded, psets, loaded, globbed,   *)
(* made, guarded, calls, run, ord]: the heap, the next free id, the list a  *)
(* materialising                                                           *)
(* consumer fills, the add_to_group calls made, the paths of the nodes     *)
(* yielded to a pattern's consumer, the ancestor sets the ".." branch      *)
(* yielded, the paths of the directories yielded to a nested map, the      *)
(* counts of the glob_children calls and of the node creations, the log of *)
(* the parents the ".." branch guarded, the log of the calls, the run of    *)
(* descendants() that is under way, and the enumeration order of the run.  *)
(***************************************************************************)
RootId == 1

\* Events counted by path (history), kept as a log: one entry per event, the
\* set of the paths it counts for.  Bump adds an event, Count is the number
\* of the events of a log that count for path p.
NoEvents == <<>>

Bump(log, ps) == Append(log, ps)

Count(log, p) == Cardinality({i \in 1..Len(log) : p \in log[i]})

\* The log of the calls (history), empty:
\*   prunes   what each node.prune() of the ".." branch found and left
\*   locates  what each self.locate(...) of a glob found and gave
\*   walks    per run of descendants(), the nodes it yielded, in yield order
\*   guards   the values of prune_guard seen at any point of a ".." branch
\*   idle     the values of prune_guard seen when a generator yields a node
\*            and when glob_children returns
\*   cuts     what each subtree held that collapse() deleted
\*   lost     the paths of the visited nodes an iteration of load(), or the
\*            last visit of the root, left outside the tree
NoCalls == [prunes |-> {}, locates |-> {}, walks |-> <<>>, guards |-> {}, idle |-> {},
            cuts |-> {}, lost |-> {}]

\* The engine state s holds no node yet.  FileGrouper.__init__ makes the root
\* before anything else, so no loop of the engine starts from such a state.
\* The loops ask it of the state an iteration starts from: the state the
\* iteration before left is then computed before the next one goes on, in the
\* order in which Python runs them.
Rootless(s) == s.next <= RootId

RECURSIVE AncestorPaths(_, _)
\* The paths of node p and of the nodes above it (p = 0: no node).
AncestorPaths(h, p) == IF p = 0 THEN {} ELSE {h[p].path} \cup AncestorPaths(h, h[p].parent)

RECURSIVE InTree(_, _)
\* Node id hangs in the tree of the root: each node up to the root is among
\* the children of its parent.
InTree(h, id) ==
    \/ id = RootId
    \/ /\ h[id].parent # 0
       /\ id \in {h[h[id].parent].children[i] : i \in 1..Len(h[h[id].parent].children)}
       /\ InTree(h, h[id].parent)

RECURSIVE UnderVisited(_, _)
\* Node id or one of the nodes above it is visited.
UnderVisited(h, id) ==
    id # 0 /\ (h[id].visited \/ UnderVisited(h, h[id].parent))

RECURSIVE RealLine(_, _)
\* The nodes above node id, as far up as the names on the way are real ones:
\* a node named "." is not an entry of the directory that holds it.
RealLine(h, id) ==
    IF h[id].parent = 0 \/ h[id].name = "." THEN {}
    ELSE {h[id].parent} \cup RealLine(h, h[id].parent)

\* Node id holds quasi nodes only: collapse() leaves it without children.
Bare(h, id) == \A i \in 1..Len(h[id].children) : h[h[id].children[i]].quasi

\* Node id is one a visit still acts on and the walk can reach.
Live(h, id) == InTree(h, id) /\ ~UnderVisited(h, id)

\* The values prune_guard has on the nodes of the heap.
GuardValues(h) == {h[i].prune_guard : i \in DOMAIN h}

\* Node id is among the children of its parent.
IsChild(h, id) == h[id].parent # 0 /\ id \in Range(h[h[id].parent].children)

\* The condition under which prune() returns at once.
PruneSkips(h, id) ==
    h[id].prune_guard > 0 \/ h[id].children # <<>> \/ h[id].visited \/ h[id].parent = 0

RECURSIVE Settled(_, _)
\* prune() has gone on from node p upwards: each node on the way is gone from
\* its parent, up to the first one prune() returns at once on.
Settled(h, p) ==
    PruneSkips(h, p) \/ (~IsChild(h, p) /\ Settled(h, h[p].parent))

RECURSIVE NodeIds(_, _)
\* The ids of node p and of the nodes above it (p = 0: no node).
NodeIds(h, p) == IF p = 0 THEN {} ELSE {p} \cup NodeIds(h, h[p].parent)

RECURSIVE NumAncestors(_, _)
\* The length of FileTreeNode.ancestors() for a node whose parent is p.
NumAncestors(h, p) == IF p = 0 THEN 0 ELSE 1 + NumAncestors(h, h[p].parent)

\* FileTreeNode.__init__: the new node, registered in its parent's children.
NewNode(s, parent, name, group, quasi) ==
    LET id == s.next
        node == [parent |-> parent,
                 name |-> name,
                 path |-> IF parent = 0 THEN Root ELSE Norm(Append(s.h[parent].path, name)),
                 group |-> group,
                 visited |-> group # None,
                 expanded |-> group # None,
                 collapsed |-> TRUE,
                 quasi |-> quasi,
                 prune_guard |-> 0,
                 children |-> <<>>,
                 weight |-> NumAncestors(s.h, parent)]
    IN [s EXCEPT !.next = id + 1,
                 !.made = Bump(@, AncestorPaths(s.h, parent)),
                 !.h = [i \in DOMAIN s.h \cup {id} |->
                          IF i = id THEN node
                          ELSE IF i = parent THEN [s.h[i] EXCEPT !.children = Append(@, id)]
                          ELSE s.h[i]]]

\* self.children[name], or 0 when the name is not a key of the dict.
ChildByName(h, id, name) ==
    LET cs == {c \in Range(h[id].children) : h[c].name = name}
    IN IF cs = {} THEN 0 ELSE CHOOSE c \in cs : TRUE

\* A faulty variant of get_child: a quasi flag that is given is also set on
\* a child that exists already.
get_child_Requasi(s, id, name, group, quasi) ==
    LET c == ChildByName(s.h, id, name)
    IN IF c # 0 THEN [s |-> IF quasi = None THEN s
                            ELSE [s EXCEPT !.h = [s.h EXCEPT ![c].quasi = (quasi = "True")]],
                      id |-> c]
       ELSE [s |-> NewNode(s, id, name, group,
                           IF quasi = None THEN s.h[id].quasi ELSE quasi = "True"),
             id |-> s.next]

\* FileTreeNode.get_child; quasi is None (the default: inherit the parent's) or
\* "True".  Yields [s, id]: the state and the child.
get_child(s, id, name, group, quasi) ==
    LET c == ChildByName(s.h, id, name)
    IN IF c # 0 THEN [s |-> s, id |-> c]
       ELSE [s |-> NewNode(s, id, name, group,
                           IF quasi = None THEN s.h[id].quasi ELSE quasi = "True"),
             id |-> s.next]

RECURSIVE locate_LastOnly(_, _, _)
\* A faulty variant of locate: only the node of the full path is tested.
locate_LastOnly(s, id, path) ==
    IF path = <<>> THEN [s |-> s, id |-> id]
    ELSE LET r == get_child(s, id, Head(path), None, None)
         IN IF Tail(path) = <<>> /\ r.s.h[r.id].visited THEN [s |-> r.s, id |-> 0]
            ELSE locate_LastOnly(r.s, r.id, Tail(path))

RECURSIVE locate(_, _, _)
\* FileTreeNode.locate: [s, id], id = 0 for None.
locate(s, id, path) ==
    IF path = <<>> THEN [s |-> s, id |-> id]
    ELSE LET r == get_child(s, id, Head(path), None, None)
         IN IF r.s.h[r.id].visited THEN [s |-> r.s, id |-> 0]
            ELSE locate(r.s, r.id, Tail(path))

\* A faulty variant of prune: the weight is moved to the parent, the pruned
\* node keeps none.
prune_Moving(s, id) ==
    LET n == s.h[id]
    IN IF n.prune_guard > 0 \/ n.children # <<>> \/ n.visited \/ n.parent = 0 THEN s
       ELSE LET p == n.parent
                h1 == [s.h EXCEPT ![p].weight = @ + n.weight, ![id].weight = 0]
                c == ChildByName(h1, p, n.name)
            IN IF c = 0 THEN [s EXCEPT !.h = h1]
               ELSE [s EXCEPT !.h = [h1 EXCEPT ![p].children = Remove(@, c)]]

RECURSIVE prune_Unguarded(_, _)
\* A faulty variant of prune: prune_guard is not looked at.
prune_Unguarded(s, id) ==
    LET n == s.h[id]
    IN IF n.children # <<>> \/ n.visited \/ n.parent = 0 THEN s
       ELSE LET p == n.parent
                h1 == [s.h EXCEPT ![p].weight = @ + n.weight]
                c == ChildByName(h1, p, n.name)
            IN IF c = 0 THEN [s EXCEPT !.h = h1]
               ELSE prune_Unguarded([s EXCEPT !.h = [h1 EXCEPT ![p].children = Remove(@, c)]], p)

\* A faulty variant of prune: the node is removed, its weight forgotten.
prune_NoFold(s, id) ==
    LET n == s.h[id]
    IN IF n.prune_guard > 0 \/ n.children # <<>> \/ n.visited \/ n.parent = 0 THEN s
       ELSE LET p == n.parent
                c == ChildByName(s.h, p, n.name)
            IN IF c = 0 THEN s
               ELSE [s EXCEPT !.h = [s.h EXCEPT ![p].children = Remove(@, c)]]

\* A faulty variant of prune: the node is removed and its weight recorded, the
\* parent is left alone.
prune_Once(s, id) ==
    LET n == s.h[id]
    IN IF n.prune_guard > 0 \/ n.children # <<>> \/ n.visited \/ n.parent = 0 THEN s
       ELSE LET p == n.parent
                h1 == [s.h EXCEPT ![p].weight = @ + n.weight]
                c == ChildByName(h1, p, n.name)
            IN IF c = 0 THEN [s EXCEPT !.h = h1]
               ELSE [s EXCEPT !.h = [h1 EXCEPT ![p].children = Remove(@, c)]]

RECURSIVE prune(_, _)
\* FileTreeNode.prune.
prune(s, id) ==
    LET n == s.h[id]
    IN IF n.prune_guard > 0 \/ n.children # <<>> \/ n.visited \/ n.parent = 0 THEN s
       ELSE LET p == n.parent
                h1 == [s.h EXCEPT ![p].weight = @ + n.weight]
                c == ChildByName(h1, p, n.name)
            IN IF c = 0 THEN [s EXCEPT !.h = h1]
               ELSE prune([s EXCEPT !.h = [h1 EXCEPT ![p].children = Remove(@, c)]], p)

RECURSIVE ObserveUp(_, _)
\* The loop of observe() over the ancestors, from node p upwards.
ObserveUp(h, p) ==
    IF p = 0 THEN h
    ELSE IF ~h[p].quasi THEN h
    ELSE ObserveUp([h EXCEPT ![p].quasi = FALSE], h[p].parent)

\* A faulty variant of observe: the node is observed, the nodes above are not.
observe_SelfOnly(s, id) ==
    IF ~s.h[id].quasi THEN s
    ELSE [s EXCEPT !.h = [s.h EXCEPT ![id].quasi = FALSE]]

\* FileTreeNode.observe.
observe(s, id) ==
    IF ~s.h[id].quasi THEN s
    ELSE [s EXCEPT !.h = ObserveUp([s.h EXCEPT ![id].quasi = FALSE], s.h[id].parent)]

\* A faulty variant of collapse: a visited node is collapsed like any other
\* and is no longer visited afterwards.
collapse_Unvisit(s, id) ==
    IF s.h[id].collapsed /\ ~s.h[id].visited THEN s
    ELSE [s EXCEPT !.h = [s.h EXCEPT ![id].expanded = FALSE, ![id].collapsed = TRUE,
                                     ![id].visited = FALSE]]

RECURSIVE ReachableFrom(_, _)
\* The ids of the nodes of the subtree of id.
ReachableFrom(h, id) ==
    {id} \cup UNION {ReachableFrom(h, h[id].children[i]) : i \in 1..Len(h[id].children)}

\* History: what the subtree of c holds as collapse() deletes it.
Cut(h, c) ==
    [solid |-> \E d \in ReachableFrom(h, c) : ~h[d].quasi,
     visited |-> \E d \in ReachableFrom(h, c) : h[d].visited]

RECURSIVE collapse(_, _)
RECURSIVE CollapseLoop(_, _, _)
\* FileTreeNode.collapse.
collapse(s, id) ==
    IF s.h[id].collapsed \/ s.h[id].visited THEN s
    ELSE LET s1 == CollapseLoop(s, id, s.h[id].children)
         IN [s1 EXCEPT !.h = [s1.h EXCEPT ![id].expanded = FALSE, ![id].collapsed = TRUE]]

\* The loop of collapse() over list(self.children.items()).
\* History: calls.cuts logs of each deleted subtree whether it held a node
\* that is not quasi, and whether it held a visited one.
CollapseLoop(s, id, cs) ==
    IF cs = <<>> \/ Rootless(s) THEN s
    ELSE LET c == Head(cs)
         IN IF s.h[c].quasi THEN
                CollapseLoop([s EXCEPT !.h = [s.h EXCEPT ![id].weight = @ + s.h[c].weight,
                                                         ![id].children = Remove(@, c)],
                                       !.calls.cuts = @ \cup {Cut(s.h, c)}],
                             id, Tail(cs))
            ELSE IF ~s.h[c].collapsed THEN CollapseLoop(collapse(s, c), id, Tail(cs))
            ELSE CollapseLoop(s, id, Tail(cs))

\* A variant of the loop below that leaves the ancestors as they are.
UncollapseUp_None(h, p) == h

RECURSIVE UncollapseUp(_, _)
\* The loop of expand() that marks every ancestor as not collapsed.
UncollapseUp(h, p) ==
    IF p = 0 THEN h ELSE UncollapseUp([h EXCEPT ![p].collapsed = FALSE], h[p].parent)

RECURSIVE expand(_, _)
RECURSIVE ExpandLoop(_, _, _)
\* FileTreeNode.expand.
expand(s, id) ==
    IF s.h[id].expanded \/ s.h[id].visited THEN s
    ELSE LET isdir == IsDir(fs, s.h[id].path)
             s1 == IF isdir THEN ExpandLoop(s, id, list_path(fs, s.ord, s.h[id].path)) ELSE s
             h2 == [s1.h EXCEPT ![id].expanded = TRUE]
         IN IF isdir /\ h2[id].collapsed
            THEN [s1 EXCEPT !.h = UncollapseUp([h2 EXCEPT ![id].collapsed = FALSE], h2[id].parent)]
            ELSE [s1 EXCEPT !.h = h2]

\* The loop of expand() over list_path(self.path).
ExpandLoop(s, id, names) ==
    IF names = <<>> \/ Rootless(s) THEN s
    ELSE LET r == get_child(s, id, Head(names), None, "True")
         IN ExpandLoop(expand(r.s, r.id), id, Tail(names))

\* A faulty variant of ancestor: one level up, whatever n.
ancestor_Parent(h, id, n) == IF h[id].parent = 0 THEN id ELSE h[id].parent

RECURSIVE ancestor_steps(_, _, _)
\* The loop of ancestor(): n times cursor = cursor.parent or cursor.
ancestor_steps(h, cursor, n) ==
    IF n = 0 THEN cursor
    ELSE ancestor_steps(h, IF h[cursor].parent = 0 THEN cursor ELSE h[cursor].parent, n - 1)

\* FileTreeNode.ancestor.
ancestor(h, id, n) ==
    IF n = 1 THEN (IF h[id].parent = 0 THEN id ELSE h[id].parent)
    ELSE IF h[id].parent = 0 THEN id
    ELSE ancestor_steps(h, id, n)

(***************************************************************************)
(* visit, in its two variants.                                             *)
(***************************************************************************)
\* FileGrouper.add_to_group, as a record of the call: the group and the path
\* relative to the root.
add_to_group(s, group, path) == [s EXCEPT !.out = Append(@, <<group, OutPath(path)>>)]

RECURSIVE visit(_, _, _)
RECURSIVE VisitItems(_, _, _, _)
RECURSIVE VisitChildren(_, _, _, _)
\* FileTreeNode.visit (parent-wins mode).
visit(s, id, group) ==
    IF s.h[id].visited THEN s
    ELSE LET s1 == collapse(observe(s, id), id)
             g == IF group # None THEN group
                  ELSE IF s1.h[id].group # None THEN s1.h[id].group
                  ELSE DEFAULT_GROUP
         IN IF s1.h[id].children = <<>> THEN
                [s1 EXCEPT !.h = [s1.h EXCEPT ![id].visited = TRUE, ![id].group = g]]
            ELSE LET items == list_path(fs, s1.ord, s1.h[id].path)
                     s2 == IF items # <<>> THEN VisitItems(s1, id, items, g)
                           ELSE VisitChildren(s1, id, 1, g)
                 IN [s2 EXCEPT !.h = [s2.h EXCEPT ![id].visited = TRUE,
                                                  ![id].expanded = TRUE,
                                                  ![id].collapsed = TRUE,
                                                  ![id].group = None]]

\* A faulty variant of VisitItems: only the first name is visited.
VisitItems_FirstOnly(s, id, names, g) ==
    IF names = <<>> THEN s
    ELSE LET r == get_child(s, id, Head(names), g, None)
         IN visit(r.s, r.id, g)

\* for name in items: self.get_child(name, group).visit(group)
VisitItems(s, id, names, g) ==
    IF names = <<>> \/ Rootless(s) THEN s
    ELSE LET r == get_child(s, id, Head(names), g, None)
         IN VisitItems(visit(r.s, r.id, g), id, Tail(names), g)

\* for child in self.children.values(): child.visit(group)
VisitChildren(s, id, i, g) ==
    IF i > Len(s.h[id].children) THEN s
    ELSE VisitChildren(visit(s, s.h[id].children[i], g), id, i + 1, g)

\* A faulty variant of the distinct visit: a node that has a group is given
\* the new one and listed again.
visit_distinct_Regroup(s, id, group) ==
    LET s1 == collapse(observe(s, id), id)
        g == IF group # None THEN group ELSE DEFAULT_GROUP
    IN add_to_group([s1 EXCEPT !.h = [s1.h EXCEPT ![id].group = g]], g, s1.h[id].path)

\* A faulty variant of the distinct visit: the node is marked as visited.
visit_distinct_Marking(s, id, group) ==
    LET s1 == collapse(observe(s, id), id)
    IN IF s1.h[id].group # None THEN s1
       ELSE LET g == IF group # None THEN group ELSE DEFAULT_GROUP
            IN add_to_group([s1 EXCEPT !.h = [s1.h EXCEPT ![id].group = g,
                                                          ![id].visited = TRUE]],
                            g, s1.h[id].path)

\* DistinctFileTreeNode.visit.
visit_distinct(s, id, group) ==
    LET s1 == collapse(observe(s, id), id)
    IN IF s1.h[id].group # None THEN s1
       ELSE LET g == IF group # None THEN group ELSE DEFAULT_GROUP
            IN add_to_group([s1 EXCEPT !.h = [s1.h EXCEPT ![id].group = g]], g, s1.h[id].path)

(***************************************************************************)
(* glob_children and the generators it drives.  A consumer k is what the   *)
(* caller of a generator does with each node it yields:                    *)
(*   [kind |-> "collect"]            list(...): append the node to s.acc   *)
(*   [kind |-> "visit", group, dist] load(): child.visit(group)            *)
(*   [kind |-> "glob", parts, dirs_only, k]                                *)
(*                       yield from node.glob_children(parts, dirs_only)   *)
(*   [kind |-> "load", data, dist]   load(): self.load(child, data), then  *)
(*                                   child.visit(DEFAULT_GROUP)            *)
(***************************************************************************)
Collect == [kind |-> "collect"]

\* The number of successive ".." segments of parts from position i on.
RECURSIVE CountParents(_, _)
CountParents(parts, i) ==
    IF i <= Len(parts) /\ parts[i] = ".." THEN 1 + CountParents(parts, i + 1) ELSE 0

\* A faulty variant of NodeLess: the deeper paths first.
NodeLess_DeepestFirst(h, x, y) ==
    PathLess(h[y].path, h[x].path) \/ (h[x].path = h[y].path /\ x < y)

\* sorted(parents, key=lambda p: split_path(p.path)): the least node first.
\* Two node objects of one path compare equal and keep the order the set
\* gives them, which Python leaves open; they are taken by age here, and the
\* groups and weights of every run come out the same when taken the other way.
NodeLess(h, x, y) ==
    PathLess(h[x].path, h[y].path) \/ (h[x].path = h[y].path /\ x < y)

RECURSIVE SortNodes(_, _)
SortNodes(h, S) ==
    IF S = {} THEN <<>>
    ELSE LET m == CHOOSE x \in S : \A y \in S \ {x} : NodeLess(h, x, y)
         IN <<m>> \o SortNodes(h, S \ {m})

RECURSIVE GuardAll_Kept(_, _, _)
\* A faulty variant of GuardAll: the guards are set and never taken back.
GuardAll_Kept(h, ps, d) ==
    IF ps = <<>> \/ d < 0 THEN h
    ELSE GuardAll_Kept([h EXCEPT ![Head(ps)].prune_guard = @ + d], Tail(ps), d)

RECURSIVE GuardAll(_, _, _)
\* for parent in parents: parent.prune_guard += d
GuardAll(h, ps, d) ==
    IF ps = <<>> THEN h
    ELSE GuardAll([h EXCEPT ![Head(ps)].prune_guard = @ + d], Tail(ps), d)

\* History: what node.prune() found (the four conditions it returns at once
\* on, whether the node was among its parent's children) and what it left in
\* r (the children maps kept, the weights still the same, the node gone from
\* its parent, the nodes above settled).
Pruned(s, id, r) ==
    [r EXCEPT !.calls.prunes = @ \cup
        {[guard |-> s.h[id].prune_guard > 0,
          kids |-> s.h[id].children # <<>>,
          visited |-> s.h[id].visited,
          root |-> s.h[id].parent = 0,
          attached |-> IsChild(s.h, id),
          kept |-> \A i \in DOMAIN s.h : r.h[i].children = s.h[i].children,
          still |-> \A i \in DOMAIN s.h : r.h[i].weight = s.h[i].weight,
          gone |-> ~IsChild(r.h, id),
          onward |-> s.h[id].parent = 0 \/ Settled(r.h, s.h[id].parent)]}]

RECURSIVE PruneAll(_, _)
\* for node in sub_nodes: node.prune()
PruneAll(s, ns) ==
    IF ns = <<>> \/ Rootless(s) THEN s
    ELSE PruneAll(Pruned(s, Head(ns), prune(s, Head(ns))), Tail(ns))

\* History: a new run of descendants() starts on the engine state s.
Walking(s) ==
    [s EXCEPT !.calls.walks = Append(@, <<>>), !.run = Len(s.calls.walks) + 1]

\* History: the run of descendants() under way yields node id: the node, the
\* nodes above it, whether it is visited and whether a node above it is.
Walked(s, id) ==
    [s EXCEPT !.calls.walks[s.run] =
        Append(@, [id |-> id,
                   path |-> s.h[id].path,
                   above |-> NodeIds(s.h, s.h[id].parent),
                   visited |-> s.h[id].visited,
                   under |-> UnderVisited(s.h, s.h[id].parent)])]

RECURSIVE Along(_, _, _)
\* The nodes the heap holds along the path below node id, as far as they exist.
Along(h, id, path) ==
    IF path = <<>> THEN {}
    ELSE LET c == ChildByName(h, id, Head(path))
         IN IF c = 0 THEN {} ELSE {c} \cup Along(h, c, Tail(path))

RECURSIVE Follows(_, _, _, _)
\* Node n is the one the path leads to from node id.
Follows(h, id, path, n) ==
    IF path = <<>> THEN n = id
    ELSE LET c == ChildByName(h, id, Head(path))
         IN c # 0 /\ Follows(h, c, Tail(path), n)

\* History: what self.locate(path) on node id found (a visited node along the
\* path) and gave in r (nothing, a visited node, the node of the path, the
\* nodes it created).  Gives r with the log written.
Located(s, id, path, r) ==
    [s |-> [r.s EXCEPT !.calls.locates = @ \cup
                {[blocked |-> \E n \in Along(s.h, id, path) : s.h[n].visited,
                  nothing |-> r.id = 0,
                  visited |-> r.id # 0 /\ r.s.h[r.id].visited,
                  there |-> r.id # 0 /\ Follows(r.s.h, id, path, r.id),
                  made |-> Cardinality(DOMAIN r.s.h \ DOMAIN s.h),
                  missing |-> Len(path) - Cardinality(Along(s.h, id, path)),
                  below |-> s.h[id].visited]}],
     id |-> r.id]

RECURSIVE Call(_, _)
RECURSIVE Yield(_, _, _)
RECURSIVE load(_, _, _, _)
RECURSIVE glob_children(_, _, _, _, _)
RECURSIVE GlobAlternatives(_, _, _, _, _, _)
RECURSIVE glob_nodes(_, _, _, _, _)
RECURSIVE ParentBranch(_, _, _, _, _)
RECURSIVE YieldFromParents(_, _, _, _, _, _)
RECURSIVE RecursiveBranch(_, _, _, _, _)
RECURSIVE RecursiveEach(_, _, _, _, _, _)
RECURSIVE RecursiveNode(_, _, _, _, _)
RECURSIVE descendants(_, _, _, _)
RECURSIVE DescendantsLoop(_, _, _, _, _)

\* History: the values of prune_guard as glob_children returns in r.
Returned(r) == [r EXCEPT !.calls.idle = @ \cup GuardValues(r.h)]

\* The two halves of the generator protocol, each of which runs the other: a
\* generator yields node id to its consumer k, and a consumer or a generator
\* starts the generator glob_children on a node.
YieldTo(s, id, k) == Call(s, [op |-> "yield", id |-> id, k |-> k])

Glob(s, id, rglob, dirs_only, k) ==
    Call(s, [op |-> "glob", id |-> id, rglob |-> rglob, dirs_only |-> dirs_only, k |-> k])

\* What the consumer k does with the yielded node id.
Yield(s, id, k) ==
    CASE k.kind = "collect" -> [s EXCEPT !.acc = Append(@, id)]
      [] k.kind = "visit" ->
            LET s1 == [s EXCEPT !.yielded = @ \cup {s.h[id].path}]
            IN IF k.dist THEN visit_distinct(s1, id, k.group) ELSE visit(s1, id, k.group)
      [] k.kind = "glob" -> Glob(s, id, <<k.parts>>, k.dirs_only, k.k)
      [] k.kind = "load" ->
            LET s1 == load([s EXCEPT !.yielded = @ \cup {s.h[id].path},
                                     !.loaded = @ \cup {s.h[id].path}], id, k.data, k.dist)
            IN IF k.dist THEN visit_distinct(s1, id, DEFAULT_GROUP)
               ELSE visit(s1, id, DEFAULT_GROUP)

\* self.overrides.get(data, data) with the lookup made twice: the override
\* of the override.
Override_Chained(data) ==
    LET once == IF data \in DOMAIN overrides THEN overrides[data] ELSE data
    IN IF once \in DOMAIN overrides THEN overrides[once] ELSE once

\* self.overrides.get(data, data)
Override(data) == IF data \in DOMAIN overrides THEN overrides[data] ELSE data

\* FileGrouper.load: the loop over config.items().  An entry is
\* [key, group, nested]: its data is the group name, or (group = None) the
\* nested pattern map.
load(s, parent, cfg, dist) ==
    IF cfg = <<>> \/ Rootless(s) THEN s
    ELSE LET e == Head(cfg)
         IN load(IF e.group # None
                 THEN Glob(s, parent, e.key, FALSE,
                                    [kind |-> "visit", group |-> Override(e.group), dist |-> dist])
                 ELSE Glob(s, parent, e.key, TRUE,
                                    [kind |-> "load", data |-> e.nested, dist |-> dist]),
                 parent, Tail(cfg), dist)

\* FileTreeNode.glob_children.  rglob is the list of the ", "-separated
\* alternatives, each the list of its path segments.
glob_children(s, id, rglob, dirs_only, k) ==
    GlobAlternatives([s EXCEPT !.h = [s.h EXCEPT ![id].weight = @ + 1],
                               !.globbed = Bump(@, {s.h[id].path})],
                     id, rglob, 1, dirs_only, k)

\* The loop over the alternatives, from alternative i on.
GlobAlternatives(s, id, rglob, i, dirs_only, k) ==
    IF i > Len(rglob) \/ Rootless(s) THEN s
    ELSE LET parts == Norm(rglob[i])
         IN IF parts = <<>> THEN YieldTo(s, id, k)
            ELSE IF ".." \in Range(parts) THEN ParentBranch(s, id, parts, dirs_only, k)
            ELSE IF "**" \in Range(parts) THEN RecursiveBranch(s, id, parts, dirs_only, k)
            ELSE GlobAlternatives(glob_nodes(s, id, glob_root(fs, s.ord, s.h[id].path,
                                                              rglob[i], dirs_only), 1, k),
                                  id, rglob, i + 1, dirs_only, k)

\* FileTreeNode.glob_nodes, over the paths the resolver gave, from path i on.
glob_nodes(s, id, paths, i, k) ==
    IF i > Len(paths) \/ Rootless(s) THEN s
    ELSE LET r == Located(s, id, paths[i], locate(s, id, paths[i]))
         IN glob_nodes(IF r.id # 0 THEN YieldTo(r.s, r.id, k) ELSE r.s, id, paths, i + 1, k)

\* The ".." branch of glob_children.
\* History: guarded logs the parents of the run: for each whether it hung in
\* the tree before the prune and after it, and whether the prune emptied it;
\* calls.guards the values of prune_guard before the parents are guarded,
\* while they are, after the prune and after the guards are taken back.
ParentBranch(s, id, parts, dirs_only, k) ==
    LET pi == IndexOf(parts, "..")
        inner == Glob([s EXCEPT !.acc = <<>>], id,
                               <<SubSeq(parts, 1, pi - 1)>>, FALSE, Collect)
        sub_nodes == IF pi = 1 THEN <<id>> ELSE inner.acc
        s1 == IF pi = 1 THEN s ELSE [inner EXCEPT !.acc = s.acc]
        n == CountParents(parts, pi)
        parents == SortNodes(s1.h, {ancestor(s1.h, x, n) : x \in Range(sub_nodes)})
        s2 == PruneAll([s1 EXCEPT !.h = GuardAll(s1.h, parents, 1)], sub_nodes)
        s3 == [s2 EXCEPT !.h = GuardAll(s2.h, parents, -1)]
        leftover == SubSeq(parts, pi + n, Len(parts))
        s4 == IF leftover # <<>> THEN s3 ELSE [s3 EXCEPT !.psets = Append(@, <<>>)]
        s5 == [s4 EXCEPT !.guarded =
                  Append(@, {[id |-> p,
                              before |-> InTree(s1.h, p),
                              after |-> InTree(s3.h, p),
                              emptied |-> s1.h[p].children # <<>> /\ s3.h[p].children = <<>>] :
                             p \in Range(parents)}),
                         !.calls.guards = @ \cup GuardValues(s1.h)
                                            \cup GuardValues(GuardAll(s1.h, parents, 1))
                                            \cup GuardValues(s2.h) \cup GuardValues(s3.h)]
    IN YieldFromParents(s5, parents, leftover, dirs_only, k, Len(s5.psets))

\* for pnode in parents: yield from pnode.glob_children(leftover, dirs_only),
\* or yield from parents when there is no leftover.
\* History: psets[n] logs each yielded parent: its node and path, the nodes
\* above it, whether it was still a live node (in the tree, not visited, below
\* no visited node) at its yield, and whether all it held then were quasi nodes.
YieldFromParents(s, parents, leftover, dirs_only, k, n) ==
    IF parents = <<>> \/ Rootless(s) THEN s
    ELSE YieldFromParents(
            IF leftover # <<>> THEN Glob(s, Head(parents), <<leftover>>, dirs_only, k)
            ELSE YieldTo([s EXCEPT !.psets[n] =
                            Append(@, [id |-> Head(parents),
                                       path |-> s.h[Head(parents)].path,
                                       above |-> RealLine(s.h, Head(parents)),
                                       live |-> Live(s.h, Head(parents)),
                                       bare |-> Bare(s.h, Head(parents)),
                                       group |-> IF k.kind = "visit" THEN k.group ELSE None])],
                       Head(parents), k),
            Tail(parents), leftover, dirs_only, k, n)

\* The "**" branch of glob_children.
RecursiveBranch(s, id, parts, dirs_only, k) ==
    LET pi == IndexOf(parts, "**")
        leftover == SubSeq(parts, pi + 1, Len(parts))
    IN IF pi = 1 THEN RecursiveNode(s, id, leftover, dirs_only, k)
       ELSE RecursiveEach(s, id,
                          glob_root(fs, s.ord, s.h[id].path, SubSeq(parts, 1, pi - 1), FALSE),
                          leftover, dirs_only, k)

\* for node in self.glob_nodes(pre-recursive part): ...
RecursiveEach(s, id, paths, leftover, dirs_only, k) ==
    IF paths = <<>> \/ Rootless(s) THEN s
    ELSE LET r == Located(s, id, Head(paths), locate(s, id, Head(paths)))
         IN RecursiveEach(IF r.id # 0 THEN RecursiveNode(r.s, r.id, leftover, dirs_only, k)
                          ELSE r.s,
                          id, Tail(paths), leftover, dirs_only, k)

\* node.expand(), then the descendants of the node: globbed with the leftover,
\* or yielded as they are.
\* History: a run of descendants() opens a list of its own in calls.walks;
\* run is the list of the run under way, the caller's again once it ends.
RecursiveNode(s, node, leftover, dirs_only, k) ==
    LET s1 == Walking(expand(s, node))
        r == IF leftover # <<>> THEN
                 descendants(s1, node, FALSE,
                             [kind |-> "glob", parts |-> leftover, dirs_only |-> dirs_only,
                              k |-> k])
             ELSE descendants(s1, node, dirs_only, k)
    IN [r EXCEPT !.run = s.run]

\* FileTreeNode.descendants.
descendants(s, id, exclude_leaves, k) ==
    IF s.h[id].visited THEN s
    ELSE DescendantsLoop(
            IF ~exclude_leaves \/ s.h[id].children # <<>> THEN YieldTo(Walked(s, id), id, k)
            ELSE s,
            id, 1, exclude_leaves, k)

\* for child in self.children.values(): the dict is read as the loop goes.
DescendantsLoop(s, id, i, exclude_leaves, k) ==
    IF i > Len(s.h[id].children) THEN s
    ELSE LET c == s.h[id].children[i]
         IN DescendantsLoop(IF ~s.h[c].visited THEN descendants(s, c, exclude_leaves, k) ELSE s,
                            id, i + 1, exclude_leaves, k)

\* The dispatch of YieldTo and Glob.
\* History: calls.idle logs the values of prune_guard at each yield and at
\* each return of glob_children.
Call(s, c) ==
    IF c.op = "yield" THEN Yield([s EXCEPT !.calls.idle = @ \cup GuardValues(s.h)], c.id, c.k)
    ELSE Returned(glob_children(s, c.id, c.rglob, c.dirs_only, c.k))

(***************************************************************************)
(* FileGrouper.                                                            *)
(***************************************************************************)
\* The engine state an operation starts from.
Engine(h, o) ==
    [h |-> h,
     next |-> (CHOOSE m \in DOMAIN h : \A i \in DOMAIN h : i <= m) + 1,
     acc |-> <<>>, out |-> <<>>, yielded |-> {}, psets |-> <<>>, loaded |-> {},
     globbed |-> NoEvents, made |-> NoEvents, guarded |-> <<>>, calls |-> NoCalls, run |-> 0,
     ord |-> o]

\* The paths of the visited nodes of the heap that hang outside the tree.
Lost(h) == {h[i].path : i \in {j \in DOMAIN h : h[j].visited /\ ~InTree(h, j)}}

\* The tree the grouper holds: the nodes no reference of which survives the
\* operation are gone.
Attached(h) == [i \in ReachableFrom(h, RootId) |-> h[i]]

\* FileGrouper.__init__: the tree is the root node alone.
InitTree ==
    Attached(NewNode([h |-> <<>>, next |-> RootId, made |-> NoEvents], 0, "", None, FALSE).h)

RECURSIVE AddAll(_, _)
\* The add_to_group calls of out, made on the groups g.
AddAll(g, out) ==
    IF out = <<>> THEN g
    ELSE AddAll([g EXCEPT ![Head(out)[1]] = Append(@, Head(out)[2])], Tail(out))

RECURSIVE walk(_, _, _)
RECURSIVE WalkChildren(_, _, _)
\* FileGrouper.walk; w = [out, weights] collects what it stores.
walk(w, h, id) ==
    LET path == OutPath(h[id].path)
        w1 == [w EXCEPT !.weights = [p \in DOMAIN w.weights \cup {path} |->
                                        IF p = path THEN h[id].weight ELSE w.weights[p]]]
    IN IF h[id].group = None THEN WalkChildren(w1, h, h[id].children)
       ELSE [w1 EXCEPT !.out = Append(@, <<h[id].group, path>>)]

WalkChildren(w, h, cs) ==
    IF cs = <<>> THEN w ELSE WalkChildren(walk(w, h, Head(cs)), h, Tail(cs))

NoWeights == [p \in {} |-> 0]

NoGroups == [g \in AllGroups |-> <<>>]

\* for group in self.groups.values(): group.sort(key=lambda p: split_path(p))
\* A faulty variant of SortGroups: the lists left in the order of the calls.
SortGroups_Unsorted(g) == g

SortGroups(g) == [x \in DOMAIN g |-> SortPaths(g[x])]

\* A faulty variant of finish: the final root.visit() is left out.
finish_NoDefaultVisit(h, g, o, dist) ==
    IF dist THEN [tree |-> h, groups |-> SortGroups(g), weights |-> NoWeights,
                  made |-> NoEvents, cuts |-> {}, lost |-> {}]
    ELSE LET w == walk([out |-> <<>>, weights |-> NoWeights], h, RootId)
         IN [tree |-> h,
             groups |-> SortGroups(AddAll(g, w.out)),
             weights |-> w.weights,
             made |-> NoEvents, cuts |-> {}, lost |-> {}]

\* The end of FileGrouper.__init__ after load(): in parent-wins mode the root is
\* visited and the tree walked; the groups are sorted.  [tree, groups, weights,
\* made, cuts, lost], made being the log of the nodes the visit created, cuts
\* that of the subtrees it deleted, lost the visited nodes it left outside
\* the tree.
finish(h, g, o, dist) ==
    IF dist THEN [tree |-> h, groups |-> SortGroups(g), weights |-> NoWeights,
                  made |-> NoEvents, cuts |-> {}, lost |-> {}]
    ELSE LET s1 == visit(Engine(h, o), RootId, None)
             w == walk([out |-> <<>>, weights |-> NoWeights], s1.h, RootId)
         IN [tree |-> Attached(s1.h),
             groups |-> SortGroups(AddAll(g, w.out)),
             weights |-> w.weights,
             made |-> s1.made,
             cuts |-> s1.calls.cuts,
             lost |-> Lost(s1.h)]

(***************************************************************************)
(* The pattern maps of the model.  A glob key is the list of its           *)
(* ", "-separated alternatives, each the list of its path segments.        *)
(***************************************************************************)
GlobKeys ==
    { <<<<"a">>>>,                       \* a
      <<<<"*">>>>,                       \* *
      <<<<"a", "m">>>>,                  \* a/m
      <<<<"*", "m">>>>,                  \* */m
      <<<<".", "a">>>>,                  \* ./a
      <<<<".", "a", "b">>>>,             \* ./a/b
      <<<<".">>>>,                       \* .
      <<<<"**", "m">>>>,                 \* **/m
      <<<<"**", "a">>>>,                 \* **/a
      <<<<"**">>>>,                      \* **
      <<<<"a", "**", "m">>>>,            \* a/**/m
      <<<<"**", "m", "..">>>>,           \* **/m/..
      <<<<"a", "m", "..">>>>,            \* a/m/..
      <<<<"**", "..">>>>,                \* **/..
      <<<<"b", "**", "**", "..">>>>,     \* b/**/**/..
      <<<<"a", "b", "..", "m">>>>,       \* a/b/../m
      <<<<"b", "m", "..", "..", "a">>>>, \* b/m/../../a
      <<<<"a">>, <<"b">>>>,              \* a, b
      <<<<".">>, <<"a">>>>,              \* ., a
      <<<<"**", "m">>, <<"b">>>>,        \* **/m, b
      <<<<"a", "m", "..">>, <<"b">>>> }  \* a/m/.., b

\* The keys and the maps of the nested entries.
NestedKeys == { <<<<"a">>>>, <<<<"*">>>>, <<<<"**">>>> }

NestedMaps ==
    { <<[key |-> <<<<"m">>>>, group |-> "g1", nested |-> <<>>]>>,
      <<[key |-> <<<<"b", "m">>>>, group |-> "g1", nested |-> <<>>],
        [key |-> <<<<"*">>>>, group |-> "g2", nested |-> <<>>]>> }

ConfigKeys == {config[i].key : i \in 1..Len(config)}

\* A Python dict of groups as the function of its items; the empty dict.
EmptyMap == [g \in {} |-> DEFAULT_GROUP]

\* dict.update: the items of new on top of those of old.
Update(old, new) ==
    [g \in DOMAIN old \cup DOMAIN new |-> IF g \in DOMAIN new THEN new[g] ELSE old[g]]

\* FileGrouper.__init__: self.overrides = overrides, then
\* self.overrides[DEFAULT_GROUP] = DEFAULT_GROUP.
InitOverrides(given) == Update(given, [g \in {DEFAULT_GROUP} |-> DEFAULT_GROUP])

\* The overrides of a FileGrouper built without any.
DefaultOverrides == InitOverrides(EmptyMap)

\* No call of group_from: the FileGrouper is built directly.
NoArgs == [config_path |-> FALSE, files |-> <<>>, file_overrides |-> EmptyMap,
           extra_globs |-> <<>>, overrides |-> EmptyMap]

(***************************************************************************)
(* The state machine: FileGrouper.__init__ loads the entries of the        *)
(* pattern map one by one, then finishes.                                  *)
\* No method has been called on its own.
NoProbe == [op |-> "none", id |-> 0, h |-> <<>>, out |-> <<>>, h2 |-> <<>>, out2 |-> <<>>]

(***************************************************************************)
Init ==
    /\ fs \in FileSystems
    /\ ord \in Orders
    /\ distinct \in BOOLEAN
    /\ absolute = FALSE
    /\ config = <<>>
    /\ tree = InitTree
    /\ groups = NoGroups
    /\ weights = NoWeights
    /\ matched = {}
    /\ psets = <<>>
    /\ loaded = {}
    /\ globbed = NoEvents
    /\ made = NoEvents
    /\ guarded = <<>>
    /\ calls = NoCalls
    /\ pc = "load"
    /\ args = NoArgs
    /\ nfiles = <<>>
    /\ overrides = DefaultOverrides
    /\ probe = NoProbe

\* The log of the calls once an iteration of load() has ended in the engine
\* state s1: with the calls of the iteration, and with the visited nodes it
\* leaves outside the tree.
Called(s1) ==
    [prunes |-> calls.prunes \cup s1.calls.prunes,
     locates |-> calls.locates \cup s1.calls.locates,
     walks |-> calls.walks \o s1.calls.walks,
     guards |-> calls.guards \cup s1.calls.guards,
     idle |-> calls.idle \cup s1.calls.idle,
     cuts |-> calls.cuts \cup s1.calls.cuts,
     lost |-> calls.lost \cup Lost(s1.h)]

\* What one iteration of the loop of load() over config.items() leaves, s1
\* being the engine state the iteration ends in: the tree, the add_to_group
\* calls made, and the history of the run.
Loaded(e, s1) ==
    /\ matched' = matched \cup s1.yielded
    /\ tree' = Attached(s1.h)
    /\ groups' = AddAll(groups, s1.out)
    /\ psets' = psets \o s1.psets
    /\ loaded' = loaded \cup s1.loaded
    /\ globbed' = globbed \o s1.globbed
    /\ made' = made \o s1.made
    /\ guarded' = guarded \o s1.guarded
    /\ calls' = Called(s1)
    /\ config' = Append(config, e)

\* One iteration of the loop of load() over config.items(), for the entry e.
LoadEntry(e) == Loaded(e, load(Engine(tree, ord), RootId, <<e>>, distinct))

\* One iteration of the loop of load() over config.items(), the data a group.
LoadGroup(glob_key, group) ==
    /\ pc = "load"
    /\ Len(config) < MaxEntries
    /\ glob_key \notin ConfigKeys
    /\ LoadEntry([key |-> glob_key, group |-> group, nested |-> <<>>])
    /\ UNCHANGED <<fs, ord, distinct, absolute, weights, pc, args, nfiles, overrides, probe>>

\* One iteration of the loop of load() over config.items(), the data a nested map.
LoadNested(glob_key, data) ==
    /\ pc = "load"
    /\ Len(config) < MaxEntries
    /\ glob_key \notin ConfigKeys
    /\ LoadEntry([key |-> glob_key, group |-> None, nested |-> data])
    /\ UNCHANGED <<fs, ord, distinct, absolute, weights, pc, args, nfiles, overrides, probe>>

\* What the end of FileGrouper.__init__ leaves, r being the result of finish.
Finished(r) ==
    /\ tree' = r.tree
    /\ groups' = r.groups
    /\ weights' = r.weights
    /\ made' = made \o r.made
    /\ calls' = [calls EXCEPT !.cuts = @ \cup r.cuts, !.lost = @ \cup r.lost]

\* The rest of FileGrouper.__init__ once the pattern map is exhausted.
Finish ==
    /\ pc = "load"
    /\ Finished(finish(tree, groups, ord, distinct))
    /\ pc' = "done"
    /\ UNCHANGED <<fs, ord, distinct, absolute, config, matched, psets, loaded, globbed,
                   guarded, args, nfiles, overrides, probe>>

Next ==
    \/ \E k \in GlobKeys, g \in Groups : LoadGroup(k, g)
    \/ \E k \in NestedKeys, d \in NestedMaps : LoadNested(k, d)
    \/ Finish

Spec == Init /\ [][Next]_vars

(***************************************************************************)
(* The front end: group_from reads the pattern map and the overrides of    *)
(* the config file, merges the extra globs and the overrides of the        *)
(* command line into them, and builds the FileGrouper.  A Python dict of   *)
(* patterns is the list of its entries [key, group, nested] in insertion   *)
(* order; the empty string is the key of one alternative of one empty      *)
(* segment.                                                                *)
(***************************************************************************)
EmptyGlob == <<"">>

\* k == "" or not all(k.split(", "))
HasEmptyGlob(k) == k = <<EmptyGlob>> \/ \E j \in 1..Len(k) : k[j] = EmptyGlob

RECURSIVE check_file_tree(_)
\* check_file_tree: TRUE when it returns, FALSE when it raises.  (The keys
\* and values of the model are of the right types.)
check_file_tree(t) ==
    \A i \in 1..Len(t) :
        /\ ~HasEmptyGlob(t[i].key)
        /\ t[i].group = None => check_file_tree(t[i].nested)

\* d[e.key] = e: a present key keeps its place and takes the new data.
SetItem(d, e) ==
    IF \E i \in 1..Len(d) : d[i].key = e.key
    THEN [i \in 1..Len(d) |-> IF d[i].key = e.key THEN e ELSE d[i]]
    ELSE Append(d, e)

RECURSIVE AddExtras(_, _)
\* for ex_glob, ex_group in extra_globs: nfiles[ex_glob] = ex_group
AddExtras(d, extra_globs) ==
    IF extra_globs = <<>> THEN d
    ELSE AddExtras(SetItem(d, [key |-> Head(extra_globs).key,
                               group |-> Head(extra_globs).group, nested |-> <<>>]),
                   Tail(extra_globs))

RECURSIVE AddUnseen(_, _)
\* for r_glob, r_data in files.items(): if r_glob not in nfiles: nfiles[r_glob] = r_data
AddUnseen(d, files) ==
    IF files = <<>> THEN d
    ELSE AddUnseen(IF \E i \in 1..Len(d) : d[i].key = Head(files).key
                   THEN d ELSE Append(d, Head(files)),
                   Tail(files))

\* group_from up to the call of group(): whether it raised, and if not the
\* pattern map and the overrides it passes on.
group_from(a) ==
    LET files == IF a.config_path THEN a.files ELSE <<>>
        noverrides == Update(IF a.config_path THEN a.file_overrides ELSE EmptyMap,
                             a.overrides)
    IN IF ~a.config_path /\ a.extra_globs = <<>>
       THEN [raised |-> TRUE, nfiles |-> <<>>, overrides |-> EmptyMap]
       ELSE IF a.config_path /\ ~check_file_tree(files)
       THEN [raised |-> TRUE, nfiles |-> <<>>, overrides |-> EmptyMap]
       ELSE [raised |-> FALSE,
             nfiles |-> IF a.extra_globs # <<>>
                        THEN AddUnseen(AddExtras(<<>>, a.extra_globs), files)
                        ELSE files,
             overrides |-> noverrides]

\* The -m options of the model: lists of at most MaxExtras glob:group pairs.
MaxExtras == 2

ExtraPairs ==
    { [key |-> <<<<"a">>>>, group |-> "g1"],               \* a:g1
      [key |-> <<<<"a">>>>, group |-> DEFAULT_GROUP],      \* a:unknown
      [key |-> <<<<"*">>>>, group |-> "g2"],               \* *:g2
      [key |-> <<EmptyGlob>>, group |-> "g1"],             \* :g1
      [key |-> <<<<"b">>, EmptyGlob>>, group |-> "g2"] }   \* b, :g2

ExtraLists == UNION {[1..n -> ExtraPairs] : n \in 0..MaxExtras}

\* The "files" maps of the config files of the model.
FileEntries ==
    { [key |-> <<<<"a">>>>, group |-> "g2", nested |-> <<>>],          \* a: g2
      [key |-> <<<<".", "a">>>>, group |-> "g2", nested |-> <<>>],     \* ./a: g2
      [key |-> <<<<"*">>>>, group |-> "g1", nested |-> <<>>],          \* *: g1
      [key |-> <<<<"b">>, EmptyGlob>>, group |-> "g1", nested |-> <<>>], \* "b, ": g1
      [key |-> <<<<"a">>>>, group |-> None,                            \* a: {"": g1}
       nested |-> <<[key |-> <<EmptyGlob>>, group |-> "g1", nested |-> <<>>]>>],
      [key |-> <<<<"*">>>>, group |-> None,                            \* *: {m: g1}
       nested |-> <<[key |-> <<<<"m">>>>, group |-> "g1", nested |-> <<>>]>>] }

FileMaps ==
    {d \in UNION {[1..n -> FileEntries] : n \in 0..MaxEntries} :
        \A i, j \in 1..Len(d) : d[i].key = d[j].key => i = j}

\* The -o options and the "overrides" of the config files of the model.
OverrideMaps ==
    { EmptyMap,
      [g \in {"g1", "g2"} |-> IF g = "g1" THEN "g2" ELSE "g1"],
      [g \in AllGroups |-> CASE g = "g1" -> "g2" [] g = "g2" -> "g1" [] OTHER -> "g1"],
      [g \in {"g1"} |-> DEFAULT_GROUP] }

FileOverrideMaps == { EmptyMap, [g \in {"g2"} |-> DEFAULT_GROUP] }

InitFrom ==
    /\ fs \in FileSystems
    /\ ord = <<"a", "b", "m">>
    /\ distinct \in BOOLEAN
    /\ absolute \in BOOLEAN
    /\ args \in [config_path : BOOLEAN, files : FileMaps, file_overrides : FileOverrideMaps,
                 extra_globs : ExtraLists, overrides : OverrideMaps]
    /\ ~args.config_path => (args.files = <<>> /\ args.file_overrides = EmptyMap)
    /\ config = <<>>
    /\ tree = InitTree
    /\ groups = NoGroups
    /\ weights = NoWeights
    /\ matched = {}
    /\ psets = <<>>
    /\ loaded = {}
    /\ globbed = NoEvents
    /\ made = NoEvents
    /\ guarded = <<>>
    /\ calls = NoCalls
    /\ nfiles = <<>>
    /\ overrides = DefaultOverrides
    /\ probe = NoProbe
    /\ pc = "start"

\* group_from, up to the construction of the FileGrouper: the root node and
\* the overrides of FileGrouper.__init__.
GroupFrom ==
    /\ pc = "start"
    /\ LET r == group_from(args)
       IN IF r.raised
          THEN pc' = "error" /\ UNCHANGED <<nfiles, overrides>>
          ELSE /\ pc' = "load"
               /\ nfiles' = r.nfiles
               /\ overrides' = InitOverrides(r.overrides)
    /\ UNCHANGED <<fs, ord, distinct, absolute, config, tree, groups, weights, matched, psets, loaded,
                   globbed, made, guarded, calls, args, probe>>

\* One iteration of the loop of load() over the items of the merged map.
LoadMerged ==
    /\ pc = "load"
    /\ Len(config) < Len(nfiles)
    /\ LoadEntry(nfiles[Len(config) + 1])
    /\ UNCHANGED <<fs, ord, distinct, absolute, weights, pc, args, nfiles, overrides, probe>>

\* The rest of FileGrouper.__init__ once the merged map is exhausted.
FinishMerged ==
    /\ Len(config) = Len(nfiles)
    /\ Finish

NextFrom ==
    \/ GroupFrom
    \/ LoadMerged
    \/ FinishMerged

SpecFrom == InitFrom /\ [][NextFrom]_vars

(***************************************************************************)
(* The methods of a node, each called on its own on a node of a tree the   *)
(* grouper has built.  The call is made on a copy: the run of the grouper  *)
(* is not disturbed, probe holds what the call leaves.                     *)
(***************************************************************************)
\* The second groups a node is visited with.
SecondGroups == {None, "g1", "g2"}

\* node.prune()
Prune(id) ==
    /\ probe = NoProbe
    /\ LET s1 == prune(Engine(tree, ord), id)
       IN probe' = [op |-> "prune", id |-> id, h |-> s1.h, out |-> <<>>,
                    h2 |-> s1.h, out2 |-> <<>>]
    /\ UNCHANGED <<fs, ord, distinct, absolute, config, tree, groups, weights, matched, psets,
                   loaded, globbed, made, guarded, calls, pc, args, nfiles, overrides>>

\* node.collapse()
Collapse(id) ==
    /\ probe = NoProbe
    /\ LET s1 == collapse(Engine(tree, ord), id)
       IN probe' = [op |-> "collapse", id |-> id, h |-> s1.h, out |-> <<>>,
                    h2 |-> s1.h, out2 |-> <<>>]
    /\ UNCHANGED <<fs, ord, distinct, absolute, config, tree, groups, weights, matched, psets,
                   loaded, globbed, made, guarded, calls, pc, args, nfiles, overrides>>

\* node.visit(group) of the variant of the run, on the engine state s.
VisitOf(s, id, group) ==
    IF distinct THEN visit_distinct(s, id, group) ELSE visit(s, id, group)

\* What node.visit(group); node.visit(again) leaves after each call.
Visited(id, s1, s2) ==
    probe' = [op |-> "visit", id |-> id, h |-> s1.h, out |-> s1.out,
              h2 |-> s2.h, out2 |-> s2.out]

\* node.visit(group); node.visit(again)
Visit(id, group, again) ==
    /\ probe = NoProbe
    /\ Visited(id, VisitOf(Engine(tree, ord), id, group),
                   VisitOf(VisitOf(Engine(tree, ord), id, group), id, again))
    /\ UNCHANGED <<fs, ord, distinct, absolute, config, tree, groups, weights, matched, psets,
                   loaded, globbed, made, guarded, calls, pc, args, nfiles, overrides>>

NextNode ==
    \/ probe = NoProbe /\ Next
    \/ \E id \in DOMAIN tree : Prune(id)
    \/ \E id \in DOMAIN tree : Collapse(id)
    \/ \E id \in DOMAIN tree, g \in {None, "g1"}, again \in SecondGroups : Visit(id, g, again)

SpecNode == Init /\ [][NextNode]_vars

(***************************************************************************)
(* The output, as the properties below read it.                            *)
(***************************************************************************)
Done == pc = "done"

\* Every path of the output, group after group.
Listed == groups["g1"] \o groups["g2"] \o groups[DEFAULT_GROUP]

\* Listed path l stands for entry e: it is e, or a directory above e.
Covers(l, e) == l = e \/ l = <<".">> \/ StrictPrefix(l, e)

\* Listed path l is a directory strictly above the listed path m.
Above(l, m) == l # m /\ (l = <<".">> \/ StrictPrefix(l, m))

\* The number of output entries that stand for entry e.
CoverCount(e) == Cardinality({i \in 1..Len(Listed) : Covers(Listed[i], e)})

\* Entry e is a directory the output lists an entry below.
IsContainer(e) == \E i \in 1..Len(Listed) : StrictPrefix(e, Listed[i])

\* Entry e is covered by an entry of group g.
CoveredBy(g, e) == \E i \in 1..Len(groups[g]) : Covers(groups[g][i], e)

(***************************************************************************)
(* C1.  In parent-wins mode the finished output is a partition of the tree *)
(* under root: every real file or directory is covered by exactly one      *)
(* output entry (itself, or one strict ancestor), and no listed path is an *)
(* ancestor of another listed path.                                        *)
(***************************************************************************)
C1_Partition ==
    (Done /\ ~distinct) =>
        /\ \A e \in Entries(fs) : CoverCount(e) = 1
        /\ \A i, j \in 1..Len(Listed) : ~Above(Listed[i], Listed[j])

GroupsListing(g, p) == {x \in AllGroups : RelPath(p) \in Range(g[x])}

\* The <<group, path>> entries the walk would emit from tree t: the paths that
\* have been given a group so far.
Assigned(t) == Range(walk([out |-> <<>>, weights |-> NoWeights], t, RootId).out)

(***************************************************************************)
(* C3.  In parent-wins mode first match wins: once a path has been given a *)
(* group by one pattern, no later pattern and not the final default visit  *)
(* changes the group of that path: it stays listed in that group, and no   *)
(* entry of another group is put at, above or below it.                    *)
(***************************************************************************)
C3_FirstMatchWins ==
    [][ ~distinct =>
          \A a \in Assigned(tree) :
              IF pc' = "done" THEN GroupsListing(groups', Norm(a[2])) = {a[1]}
              ELSE \A b \in Assigned(tree') :
                      (b[2] = a[2] \/ Above(b[2], a[2]) \/ Above(a[2], b[2])) => b = a ]_vars

(***************************************************************************)
(* C4.  In parent-wins mode every entry that no pattern matched, and that  *)
(* does not lie inside a directory grouped as a unit, ends up covered by   *)
(* an entry of the default group: the final root.visit() assigns DEFAULT   *)
(* to every node that is still unvisited.                                  *)
(***************************************************************************)
C4_UnmatchedIsUnknown ==
    (Done /\ ~distinct) =>
        \A e \in Entries(fs) :
            ( /\ e \notin matched
              /\ ~\E g \in Groups : \E i \in 1..Len(groups[g]) :
                     groups[g][i] = <<".">> \/ StrictPrefix(groups[g][i], e) )
            => CoveredBy(DEFAULT_GROUP, e)

\* C4 as amended: every entry that lies neither at nor below a node a pattern
\* yielded, and that is not a directory holding listed entries, is covered by
\* an entry of the default group and by no entry of another group.
C4_UnmatchedOutsideMatches ==
    (Done /\ ~distinct) =>
        \A e \in Entries(fs) :
            ( /\ ~\E p \in matched : IsPrefix(p, e)
              /\ ~IsContainer(e) )
            => /\ CoveredBy(DEFAULT_GROUP, e)
               /\ \A g \in Groups : ~CoveredBy(g, e)

\* A finished run where one pattern matched, an entry outside the match is
\* covered by the default group, and a directory stands as a container.
C4_Witness ==
    /\ Done /\ ~distinct /\ matched # {}
    /\ \E e \in Entries(fs) :
          /\ ~\E p \in matched : IsPrefix(p, e)
          /\ ~IsContainer(e)
          /\ CoveredBy(DEFAULT_GROUP, e)
    /\ \E e \in Entries(fs) : IsContainer(e) /\ e \notin matched

\* The pairs <<n, i, j>> of yields i and j of the n-th ancestor set.
AncestorPairs ==
    UNION { {<<n, i, j>> : i \in 1..Len(psets[n]), j \in 1..Len(psets[n])} :
                n \in 1..Len(psets) }

ClimbingAlternatives(k) == {j \in 1..Len(k) : ".." \in Range(k[j])}

RECURSIVE GlobMatches(_, _)
\* Path p matches the segments segs: a name matches itself, "*" one name and
\* "**" any number of names.
GlobMatches(segs, p) ==
    IF segs = <<>> THEN p = <<>>
    ELSE IF Head(segs) = "**"
         THEN GlobMatches(Tail(segs), p) \/ (p # <<>> /\ GlobMatches(segs, Tail(p)))
    ELSE /\ p # <<>>
         /\ Head(segs) \in {"*", Head(p)}
         /\ GlobMatches(Tail(segs), Tail(p))

\* The keys of one alternative made of names, "*" and "**" and ending in a
\* name: those whose matches are the entries of that name.
IsSimpleKey(k) ==
    /\ Len(k) = 1
    /\ Range(k[1]) \cap {".", ".."} = {}
    /\ k[1][Len(k[1])] \in Names

(***************************************************************************)
(* C6.  In distinct mode matching a node does not block its descendants:   *)
(* every entry that a pattern of the map matches is yielded and grouped,   *)
(* also when a node above it has been grouped before.  (Stated for the     *)
(* patterns that are one alternative without "." and "..", ending in a     *)
(* name.)                                                                  *)
(***************************************************************************)
C6_DescendantsStillMatched ==
    (Done /\ distinct) =>
        \A i \in 1..Len(config) :
            (config[i].group # None /\ IsSimpleKey(config[i].key)) =>
                \A e \in Entries(fs) :
                    GlobMatches(config[i].key[1], e) => GroupsListing(groups, e) # {}

(***************************************************************************)
(* C7.  In distinct mode no DEFAULT group entries are produced: the group  *)
(* names of the pattern maps, nested maps included, all differ from        *)
(* "unknown", and the output has no "unknown" group.                       *)
(***************************************************************************)
C7_NoDefaultInDistinct == distinct => groups[DEFAULT_GROUP] = <<>>

(***************************************************************************)
(* C8.  In distinct mode each matched path belongs to exactly one group:   *)
(* no path is appended to the output more than once, neither twice in one  *)
(* group nor in two groups.                                                *)
(***************************************************************************)
C8_DistinctOnce == distinct => Cardinality(Range(Listed)) = Len(Listed)

RECURSIVE Replay(_, _, _, _)
\* FileGrouper.__init__ on the entries i.. of the pattern map, from tree h and
\* groups g, under the enumeration order o.
Replay(o, i, h, g) ==
    IF i > Len(config) THEN finish(h, g, o, distinct)
    ELSE LET s1 == load(Engine(h, o), RootId, <<config[i]>>, distinct)
         IN Replay(o, i + 1, Attached(s1.h), AddAll(g, s1.out))

(***************************************************************************)
(* C9.  The groups output is deterministic: for a fixed filesystem         *)
(* snapshot and pattern map the group-to-paths mapping is the same         *)
(* whatever order list_path and the glob resolver enumerate the entries of *)
(* a directory in.                                                         *)
(***************************************************************************)
C9_OrderIndependent ==
    Done => \A o \in Orders : Replay(o, 1, InitTree, NoGroups).groups = groups

\* A finished run under an unsorted enumeration order, of a map with a ".."
\* pattern, whose output holds a group of several paths, and that another
\* enumeration order reproduces.
C9_Witness ==
    /\ Done
    /\ ord = <<"m", "b", "a">>
    /\ \E i \in 1..Len(config) : ClimbingAlternatives(config[i].key) # {}
    /\ \E g \in AllGroups : Len(groups[g]) >= 2
    /\ Replay(<<"a", "b", "m">>, 1, InitTree, NoGroups).groups = groups

\* The paths of the nodes a materialising consumer collected.
YieldedPaths(s) == [i \in 1..Len(s.acc) |-> s.h[s.acc[i]].path]

(***************************************************************************)
(* C10.  glob_children evaluates every ", "-separated alternative of a     *)
(* pattern: the nodes yielded for "A, B" are those of A followed by those  *)
(* of B, whichever branch A takes.                                         *)
(***************************************************************************)
C10_EveryAlternative ==
    pc = "load" =>
        \A k \in GlobKeys :
            Len(k) = 2 =>
                LET both == glob_children(Engine(tree, ord), RootId, k, FALSE, Collect)
                    first == glob_children(Engine(tree, ord), RootId, <<k[1]>>, FALSE, Collect)
                    second == glob_children(first, RootId, <<k[2]>>, FALSE, Collect)
                IN YieldedPaths(both) = YieldedPaths(second)

\* Some visited node of the tree lies on the path e, or is e itself.
VisitedAbove(t, e) == \E i \in DOMAIN t : t[i].visited /\ IsPrefix(t[i].path, e)

\* The paths the pattern "**/n" yields on the root of the present tree.
RecursiveYield(n) ==
    YieldedPaths(glob_children(Engine(tree, ord), RootId, <<<<"**", n>>>>, FALSE, Collect))

(***************************************************************************)
(* C11.  A recursive pattern "**/L" evaluated on a node yields every entry *)
(* at any depth below it that matches L and lies under no visited node,    *)
(* whatever the earlier patterns expanded, pruned or collapsed.            *)
(***************************************************************************)
C11_RecursiveYieldsAll ==
    pc = "load" =>
        \A n \in Names : \A e \in Entries(fs) :
            (e[Len(e)] = n /\ ~VisitedAbove(tree, e)) => e \in Range(RecursiveYield(n))

\* The replacement the overrides handed to group_from name for group g, looked
\* up once: those of the command line before those of the config file, and
\* the default group always itself.
OverriddenOnce(g) ==
    IF g = DEFAULT_GROUP THEN g
    ELSE IF g \in DOMAIN args.overrides THEN args.overrides[g]
    ELSE IF args.config_path /\ g \in DOMAIN args.file_overrides THEN args.file_overrides[g]
    ELSE g

RECURSIVE NamedGroups(_)
\* The groups the entries of a pattern map name, nested maps included.
NamedGroups(cfg) ==
    IF cfg = <<>> THEN {}
    ELSE (IF Head(cfg).group # None THEN {Head(cfg).group} ELSE NamedGroups(Head(cfg).nested))
         \cup NamedGroups(Tail(cfg))

\* The groups a step gives to paths that had none before it: in distinct mode
\* the groups whose list grows, otherwise the groups of the new entries the
\* walk would emit.
NewlyGrouped ==
    IF distinct THEN {g \in AllGroups : Len(groups'[g]) # Len(groups[g])}
    ELSE {a[1] : a \in Assigned(tree') \ Assigned(tree)}

(***************************************************************************)
(* C12.  Overrides are applied exactly once to the group a pattern names,  *)
(* when it is assigned: with overrides a->b and b->a a pattern of group a  *)
(* gives group b and one of group b gives group a; and an override given   *)
(* for the default group is ignored, "unknown" maps to itself.  So a step  *)
(* of load() gives paths no other group than the once-overridden groups    *)
(* its entry names (and the default group, for the directories of a nested *)
(* entry), and the final default visit gives none but the default group.   *)
(***************************************************************************)
C12_OverriddenOnce ==
    [][ /\ (pc = "load" /\ Len(config') = Len(config) + 1) =>
            LET e == config'[Len(config')]
            IN NewlyGrouped \subseteq
                   IF e.group # None THEN {OverriddenOnce(e.group)}
                   ELSE {OverriddenOnce(g) : g \in NamedGroups(e.nested)} \cup {DEFAULT_GROUP}
        /\ (pc = "load" /\ pc' = "done") => NewlyGrouped \subseteq {DEFAULT_GROUP} ]_vars

\* A finished run with the overrides g1->g2, g2->g1 and unknown->g1 of the map
\* "a": unknown, "*": g2: a is listed as unknown and the rest as g1, nothing
\* as g2.
C12_Witness ==
    /\ Done
    /\ DOMAIN args.overrides = AllGroups
    /\ args.overrides["g1"] = "g2" /\ args.overrides["g2"] = "g1"
    /\ args.overrides[DEFAULT_GROUP] = "g1"
    /\ Len(config) = 2
    /\ config[1].group = DEFAULT_GROUP /\ config[2].group = "g2"
    /\ groups[DEFAULT_GROUP] = <<<<"a">>>>
    /\ groups["g1"] # <<>>
    /\ groups["g2"] = <<>>

RECURSIVE FirstKeys(_, _)
\* The keys of a list of entries in the order of their first occurrence.
FirstKeys(l, seen) ==
    IF l = <<>> THEN <<>>
    ELSE IF Head(l).key \in seen THEN FirstKeys(Tail(l), seen)
    ELSE <<Head(l).key>> \o FirstKeys(Tail(l), seen \cup {Head(l).key})

ExtraKeys == {args.extra_globs[i].key : i \in 1..Len(args.extra_globs)}

\* The entries of the config file whose key is not an extra glob.
UnseenFiles == SelectSeq(args.files, LAMBDA e : e.key \notin ExtraKeys)

\* The merged map: the extra globs first, in their given order (a glob given
\* twice at its first place), each with the group of an extra glob of that
\* key, then the other config entries as they are.
MergedOrder ==
    (pc \in {"load", "done"} /\ args.extra_globs # <<>>) =>
        LET n == Len(FirstKeys(args.extra_globs, {}))
        IN /\ Len(nfiles) = n + Len(UnseenFiles)
           /\ \A i \in 1..n :
                 /\ nfiles[i].key = FirstKeys(args.extra_globs, {})[i]
                 /\ nfiles[i].nested = <<>>
                 /\ \E j \in 1..Len(args.extra_globs) :
                       /\ args.extra_globs[j].key = nfiles[i].key
                       /\ args.extra_globs[j].group = nfiles[i].group
           /\ \A i \in 1..Len(UnseenFiles) : nfiles[n + i] = UnseenFiles[i]

\* Entry p matches an alternative of key k (alternatives without "..").
KeyMatches(k, p) ==
    \E j \in 1..Len(k) : ".." \notin Range(k[j]) /\ GlobMatches(Norm(k[j]), p)

\* Every entry that both an extra glob and a glob of the config file match
\* is listed in no other group than that of the first extra glob matching.
ExtraWins ==
    (Done /\ args.extra_globs # <<>>) =>
        \A p \in Entries(fs) :
            LET n == Len(FirstKeys(args.extra_globs, {}))
                ex == {i \in 1..n : KeyMatches(nfiles[i].key, p)}
                cf == {i \in (n + 1)..Len(nfiles) :
                          nfiles[i].group # None /\ KeyMatches(nfiles[i].key, p)}
            IN (ex # {} /\ cf # {}) =>
                   LET first == CHOOSE i \in ex : \A j \in ex : i <= j
                   IN GroupsListing(groups, p) \subseteq {OverriddenOnce(nfiles[first].group)}

(***************************************************************************)
(* C13.  The merged pattern map lists all extra globs first, in their      *)
(* given order, followed by the config entries whose key is not an extra   *)
(* glob; so for a key present in both the extra's group is used, and for   *)
(* any path matched by both an extra glob and a config glob the extra      *)
(* glob's group wins.                                                      *)
(***************************************************************************)
C13_ExtrasFirst == MergedOrder /\ ExtraWins

\* The <<group, path>> entries of the output g.
OutputPairs(g) == UNION {{<<x, g[x][i]>> : i \in 1..Len(g[x])} : x \in AllGroups}

\* Those of the <<group, path>> entries S whose path is d or lies inside d.
AtOrInside(S, d) == {a \in S : IsPrefix(d, Norm(a[2]))}

\* No pattern evaluated inside directory d matched entry e or a directory
\* above it.
LeftUnmatched(d, e) == ~\E q \in matched : StrictPrefix(d, q) /\ IsPrefix(q, e)

\* What a nested entry yields to its map is a directory.
NestedDirsOnly == \A d \in loaded : IsDir(fs, d)

\* Once a directory went through a nested entry, no later step changes the
\* entries at or inside it.
NestedFrozen ==
    [][ ~distinct =>
          \A d \in loaded :
              IF pc' = "done"
              THEN AtOrInside(OutputPairs(groups'), d) = AtOrInside(Assigned(tree), d)
              ELSE AtOrInside(Assigned(tree'), d) = AtOrInside(Assigned(tree), d) ]_vars

\* The entries inside such a directory are covered, those its map left
\* unmatched by the default group (unless the directory lay inside a
\* directory matched before; directories holding listed entries aside).
NestedRestUnknown ==
    (Done /\ ~distinct) =>
        \A d \in loaded : \A e \in Entries(fs) :
            (StrictPrefix(d, e) /\ ~IsContainer(e)) =>
                /\ CoverCount(e) >= 1
                /\ (LeftUnmatched(d, e) /\ ~\E q \in matched : StrictPrefix(q, d))
                       => CoveredBy(DEFAULT_GROUP, e)

(***************************************************************************)
(* C14.  The key of a nested entry is matched against directories only;    *)
(* the nested map is applied inside each matched directory and the         *)
(* directory is then visited with DEFAULT, so that (parent-wins mode) a    *)
(* later rule of the same level cannot regroup the directory or anything   *)
(* inside it, and the entries inside it that the nested map left unmatched *)
(* are covered by "unknown".                                               *)
(***************************************************************************)
C14_NestedDirectories ==
    /\ []NestedDirsOnly
    /\ NestedFrozen
    /\ []NestedRestUnknown

RECURSIVE SomeEmptyKey(_)
\* Some key of the pattern map cfg, nested maps included, is the empty string
\* or has an empty ", "-separated alternative.
SomeEmptyKey(cfg) ==
    \E i \in 1..Len(cfg) :
        \/ \E j \in 1..Len(cfg[i].key) : cfg[i].key[j] = <<"">>
        \/ cfg[i].group = None /\ SomeEmptyKey(cfg[i].nested)

\* A pattern source of the call has such a key: the extra globs, or the
\* "files" map of the config file.
EmptyKeyGiven ==
    \/ \E i \in 1..Len(args.extra_globs) :
          \E j \in 1..Len(args.extra_globs[i].key) : args.extra_globs[i].key[j] = <<"">>
    \/ args.config_path /\ SomeEmptyKey(args.files)

(***************************************************************************)
(* C15.  Every glob key that reaches the grouping engine through           *)
(* group_from is non-empty and has no empty ", "-separated alternative: a  *)
(* pattern source with an empty key or an empty alternative makes          *)
(* group_from raise an input error, and no grouping is performed.          *)
(***************************************************************************)
C15_NoEmptyGlobReachesEngine ==
    /\ pc \in {"load", "done"} => (~SomeEmptyKey(nfiles) /\ ~SomeEmptyKey(config))
    /\ (EmptyKeyGiven /\ pc # "start") =>
           (pc = "error" /\ config = <<>> /\ groups = NoGroups /\ tree = InitTree)

RECURSIVE WalkReached(_, _)
RECURSIVE ReachedAmong(_, _)
\* The nodes walk() reaches from node id: the node, and below an ungrouped
\* node those it reaches from the children.
WalkReached(h, id) ==
    {id} \cup (IF h[id].group = None THEN ReachedAmong(h, h[id].children) ELSE {})

ReachedAmong(h, cs) ==
    IF cs = <<>> THEN {} ELSE WalkReached(h, Head(cs)) \cup ReachedAmong(h, Tail(cs))

(***************************************************************************)
(* C16.  In parent-wins mode the weights output has exactly one entry per  *)
(* node reached by walk, holding the weight of the node: the root, every   *)
(* ungrouped container node on the way to a grouped node, and every        *)
(* grouped node reached; no entry exists for a node below a grouped node.  *)
(***************************************************************************)
C16_WeightsPerWalkedNode ==
    (Done /\ ~distinct) =>
        LET reached == WalkReached(tree, RootId)
        IN /\ Cardinality(DOMAIN weights) = Cardinality(reached)
           /\ \A n \in reached :
                 /\ RelPath(tree[n].path) \in DOMAIN weights
                 /\ weights[RelPath(tree[n].path)] = tree[n].weight
                 /\ \/ n = RootId
                    \/ tree[n].group # None
                    \/ \E m \in reached : /\ tree[m].group # None
                                          /\ m \in ReachableFrom(tree, n)
           /\ \A n \in DOMAIN tree \ reached : RelPath(tree[n].path) \notin DOMAIN weights

\* The path of the tree a key of the weights output stands for.
PathOfKey(p) == IF p = <<".">> THEN Root ELSE p

(***************************************************************************)
(* C17.  The weight reported for a path equals the number of times that    *)
(* path has been globbed on, directly or indirectly through recursive      *)
(* globs, plus the number of times a descendant node has been created      *)
(* beneath it.                                                             *)
(***************************************************************************)
C17_WeightIsGlobsPlusCreations ==
    (Done /\ ~distinct) =>
        \A p \in DOMAIN weights :
            weights[p] = Count(globbed, PathOfKey(p)) + Count(made, PathOfKey(p))

RECURSIVE SegmentsLeq(_, _)
\* Python's comparison of two lists of path segments, p <= q: the first
\* differing segments decide, by the order of the strings; a list comes before
\* the lists it is a proper prefix of.
SegmentsLeq(p, q) ==
    IF p = <<>> THEN TRUE
    ELSE IF q = <<>> THEN FALSE
    ELSE IF Head(p) = Head(q) THEN SegmentsLeq(Tail(p), Tail(q))
    ELSE Rank[Head(p)] < Rank[Head(q)]

(***************************************************************************)
(* C18.  Every output group list is sorted by split_path segment order     *)
(* (lexicographic comparison of the lists of path segments), in both modes *)
(* and for relative as well as absolute output.                            *)
(***************************************************************************)
C18_GroupsSorted ==
    Done => \A g \in AllGroups :
                \A i, j \in 1..Len(groups[g]) :
                    i < j => SegmentsLeq(groups[g][i], groups[g][j])

\* A finished run with absolute output, in distinct mode, whose patterns put
\* b into a group before a and m: the list is in segment order all the same.
C18_Witness ==
    /\ Done
    /\ absolute
    /\ distinct
    /\ Len(config) = 2
    /\ config[1].key = <<<<"b">>, <<"">>>>
    /\ config[2].key = <<<<"*">>>>
    /\ groups["g2"] = <<AbsRoot \o <<"a">>, AbsRoot \o <<"b">>, AbsRoot \o <<"m">>>>

(***************************************************************************)
(* C19.  In every reachable state and for every node n of the tree: if n   *)
(* is visited then n is expanded.                                          *)
(***************************************************************************)
C19_VisitedImpliesExpanded ==
    \A n \in DOMAIN tree : tree[n].visited => tree[n].expanded

\* Descendants(h, n): the nodes strictly below n in the tree.
Descendants(h, n) == ReachableFrom(h, n) \ {n}

SameNode(d) ==
    /\ d \in DOMAIN tree'
    /\ tree'[d].children = tree[d].children
    /\ tree'[d].group = tree[d].group
    /\ tree'[d].visited = tree[d].visited
    /\ tree'[d].expanded = tree[d].expanded
    /\ tree'[d].collapsed = tree[d].collapsed
    /\ tree'[d].quasi = tree[d].quasi
    /\ tree'[d].weight = tree[d].weight

(***************************************************************************)
(* C21.  A visited node's subtree is frozen: once a node is visited, no    *)
(* later operation inserts a child under it or under any of its            *)
(* descendants, and none changes the group, flags or weight of the node or *)
(* of its descendants.                                                     *)
(***************************************************************************)
C21_VisitedSubtreeFrozen ==
    [][\A n \in DOMAIN tree :
          tree[n].visited => \A d \in ReachableFrom(tree, n) : SameNode(d)]_vars

\* The nodes of the tree that the probed call has removed from it.
Removed == DOMAIN tree \ ReachableFrom(probe.h, RootId)

(***************************************************************************)
(* C22.  Conservation of weight across prune: when child.prune() removes   *)
(* the child, the weight of its parent increases by exactly the weight of  *)
(* the child, which already includes the weight of the descendants that    *)
(* cascading prunes folded into it.  So for every node the call removes,   *)
(* the node pruned first and each ancestor the cascade reaches: the        *)
(* parent's weight after the call is its weight before plus the final      *)
(* weight of the removed node.                                             *)
(***************************************************************************)
C22_PruneConservesWeight ==
    probe.op = "prune" =>
        /\ probe.h[probe.id].weight = tree[probe.id].weight
        /\ \A x \in Removed :
               probe.h[tree[x].parent].weight
                   = tree[tree[x].parent].weight + probe.h[x].weight

\* A prune that cascades: the node and its parent are both removed, and the
\* weight of the node has reached its grandparent.
C22_Witness ==
    /\ probe.op = "prune"
    /\ probe.id \in Removed
    /\ tree[probe.id].parent \in Removed
    /\ tree[probe.id].weight > 0
    /\ LET p == tree[probe.id].parent
           gp == tree[p].parent
       IN probe.h[gp].weight = tree[gp].weight + tree[p].weight + tree[probe.id].weight

RECURSIVE SumWeights(_, _)
\* The sum of the weights of the nodes ns of heap h.
SumWeights(h, ns) ==
    IF ns = {} THEN 0
    ELSE LET n == CHOOSE x \in ns : TRUE
         IN h[n].weight + SumWeights(h, ns \ {n})

\* The sum of the weights over the subtree of node id.
SubtreeWeight(h, id) == SumWeights(h, ReachableFrom(h, id))

\* The probed call is collapse() on an unvisited node that is not collapsed.
CollapseCalled ==
    /\ probe.op = "collapse"
    /\ ~tree[probe.id].visited
    /\ ~tree[probe.id].collapsed

\* After it no descendant of the node is a quasi node.
CollapseRemovesQuasi ==
    CollapseCalled => \A d \in Descendants(probe.h, probe.id) : ~probe.h[d].quasi

\* The weights over the subtree add up to what they did before.
CollapseKeepsWeight ==
    CollapseCalled => SubtreeWeight(probe.h, probe.id) = SubtreeWeight(tree, probe.id)

(***************************************************************************)
(* C23.  collapse() on an unvisited, non-collapsed node removes every      *)
(* quasi descendant from its subtree and folds the weight of each removed  *)
(* quasi node into its parent, so that the sum of the weights over the     *)
(* subtree is the same before and after the collapse.                      *)
(***************************************************************************)
C23_CollapseFoldsWeights == CollapseRemovesQuasi /\ CollapseKeepsWeight

(***************************************************************************)
(* C24.  For every unvisited node with expanded = true, every real         *)
(* filesystem child of the node's path is present in its children map,     *)
(* after any sequence of expand, collapse, prune and glob operations.      *)
(***************************************************************************)
C24_ExpandedHoldsAllChildren ==
    \A n \in DOMAIN tree :
        (~tree[n].visited /\ tree[n].expanded) =>
            LET names == list_path(fs, ord, tree[n].path)
            IN \A i \in 1..Len(names) : ChildByName(tree, n, names[i]) # 0

\* The parents the runs of the ".." branch guarded, all runs together.
GuardedParents == UNION {guarded[i] : i \in 1..Len(guarded)}

(***************************************************************************)
(* C25.  After the transactional prune of the ".." branch (prune_guard     *)
(* raised on every node of the ancestor set P, every pre-part node pruned, *)
(* prune_guard lowered again), every node of P is still attached to the    *)
(* tree, reachable from the root through the children maps, even if all    *)
(* of its children were pruned.                                            *)
(***************************************************************************)
C25_GuardedParentsStay ==
    \A g \in GuardedParents : g.after

\* A run of the ".." branch has emptied a parent that is not the root, and
\* the parent hangs in the tree all the same.
C25_Witness ==
    \E g \in GuardedParents : g.id # RootId /\ g.emptied /\ g.before /\ g.after

\* The nodes of the tree that are also in the tree of the next state.
Staying == DOMAIN tree \cap DOMAIN tree'

(***************************************************************************)
(* C26.  A quasi node can become non-quasi, but a non-quasi node never     *)
(* becomes quasi: over any sequence of operations, expand() calling        *)
(* get_child(name, quasi=true) on an already existing child included, the  *)
(* quasi flag of a node only changes from true to false.                   *)
(***************************************************************************)
C26_QuasiOnlyCleared ==
    [][\A n \in Staying : ~tree[n].quasi => ~tree'[n].quasi]_vars

\* In distinct mode a/m has created the plain nodes a and a/m, then **/m has
\* expanded the root over them: a is expanded and still plain, next to quasi
\* nodes the expansion has added.
C26_Witness ==
    /\ distinct
    /\ Len(config) = 2
    /\ config[1].key = <<<<"a", "m">>>>
    /\ config[2].key = <<<<"**", "m">>>>
    /\ \E n \in DOMAIN tree :
           tree[n].path = <<"a">> /\ tree[n].expanded /\ ~tree[n].quasi
    /\ \E n \in DOMAIN tree : tree[n].quasi

(***************************************************************************)
(* C27.  visited is monotonic: once a node's visited flag is true, no      *)
(* operation ever sets it back to false.  Stated over the steps of the     *)
(* grouper and over the methods called on their own: a node that is        *)
(* visited and stays in the tree is visited afterwards.                    *)
(***************************************************************************)
C27_VisitedNeverCleared ==
    /\ [][\A n \in Staying : tree[n].visited => tree'[n].visited]_vars
    /\ [](\A n \in DOMAIN tree \cap DOMAIN probe.h :
              tree[n].visited => probe.h[n].visited /\ probe.h2[n].visited)

\* collapse() and visit() have been called on a visited directory that holds
\* children: it is visited as before.
C27_Witness ==
    /\ probe.op \in {"collapse", "visit"}
    /\ tree[probe.id].visited
    /\ tree[probe.id].children # <<>>
    /\ probe.h[probe.id].visited
    /\ probe.h2[probe.id].visited

(***************************************************************************)
(* C28.  In distinct mode visit never sets visited: in every reachable     *)
(* state of a distinct-mode run, every node of the tree has visited =      *)
(* false, so locate and descendants never skip a node because it was       *)
(* grouped.                                                                *)
(***************************************************************************)
C28_DistinctNeverVisited ==
    distinct => \A n \in DOMAIN tree : ~tree[n].visited

\* A distinct-mode run in which a directory and an entry below it have both
\* been given a group: the second pattern was not stopped by the first.
C28_Witness ==
    /\ distinct
    /\ \E n \in DOMAIN tree :
           /\ tree[n].group # None
           /\ ~tree[n].visited
           /\ \E c \in Range(tree[n].children) :
                  tree[c].group # None /\ ~tree[c].visited

(***************************************************************************)
(* C29.  A node's weight only increases during its lifetime: no operation  *)
(* (the ancestors count of the construction, glob_children, prune,         *)
(* collapse, visit) ever decreases the weight of an existing node.  Stated *)
(* over the steps of the grouper and over the methods called on their own, *)
(* the nodes a call removes from the tree included.                        *)
(***************************************************************************)
C29_WeightNeverDecreases ==
    /\ [][\A n \in Staying : tree'[n].weight >= tree[n].weight]_vars
    /\ [](\A n \in DOMAIN tree \cap DOMAIN probe.h :
              /\ probe.h[n].weight >= tree[n].weight
              /\ probe.h2[n].weight >= probe.h[n].weight)

\* collapse() has removed a quasi child and the weight of the node has grown
\* by what it folded in.
C29_Witness ==
    /\ probe.op = "collapse"
    /\ Len(probe.h[probe.id].children) < Len(tree[probe.id].children)
    /\ probe.h[probe.id].weight > tree[probe.id].weight

(***************************************************************************)
(* C30.  Visiting is idempotent: calling visit() on a node twice in a row, *)
(* with the same or a different group, leaves the tree, every node's group *)
(* and flags, and the output exactly as after the first call; this holds   *)
(* for both the parent-wins and the distinct variant.                      *)
(***************************************************************************)
C30_VisitIdempotent ==
    probe.op = "visit" => probe.h2 = probe.h /\ probe.out2 = probe.out

\* A first visit that has done something, in each variant: in distinct mode
\* it has given the node a group and listed it, in parent-wins mode it has
\* visited a directory and created its entries.
C30_Witness ==
    /\ probe.op = "visit"
    /\ ~tree[probe.id].visited
    /\ tree[probe.id].group = None
    /\ probe.h[probe.id].group = "g1" \/ probe.h[probe.id].visited
    /\ IF distinct THEN probe.out # <<>> /\ probe.id # RootId
       ELSE Len(probe.h[probe.id].children) > Len(tree[probe.id].children)
    /\ probe.h2 = probe.h

(***************************************************************************)
(* C31.  prune() is a no-op whenever the node has prune_guard > 0, has     *)
(* children, is visited, or has no parent: in each of these cases the      *)
(* children maps and the weights of all nodes are unchanged; otherwise the *)
(* node is removed from its parent and prune continues with the parent.    *)
(* Read on every prune() of a ".." branch and on prune() called on its own *)
(* on every node of the tree.                                              *)
(***************************************************************************)
C31_PruneNoOpOrRemoves ==
    /\ \A p \in calls.prunes :
          IF p.guard \/ p.kids \/ p.visited \/ p.root THEN p.kept /\ p.still
          ELSE p.gone /\ p.onward
    /\ probe.op = "prune" =>
          IF PruneSkips(tree, probe.id)
          THEN \A i \in DOMAIN tree : /\ probe.h[i].children = tree[i].children
                                      /\ probe.h[i].weight = tree[i].weight
          ELSE /\ ~IsChild(probe.h, probe.id)
               /\ Settled(probe.h, tree[probe.id].parent)

\* A ".." branch has pruned a node of the tree and has left a guarded one
\* alone, and prune() called on its own has removed a node and its parent.
C31_Witness ==
    /\ \E p \in calls.prunes : p.guard /\ p.kept /\ p.still
    /\ \E p \in calls.prunes : ~(p.guard \/ p.kids \/ p.visited \/ p.root) /\ p.attached /\ p.gone
    /\ probe.op = "prune"
    /\ ~PruneSkips(tree, probe.id)
    /\ ~IsChild(probe.h, probe.id)
    /\ tree[tree[probe.id].parent].parent # 0
    /\ ~IsChild(probe.h, tree[probe.id].parent)

(***************************************************************************)
(* C32.  locate(segments) returns nothing exactly when some node along the *)
(* path below the start node (intermediate or final) is visited; otherwise *)
(* it returns the node for the full path, creating the missing nodes on    *)
(* the way, and it never returns a visited node.  Read on every            *)
(* self.locate(...) of glob_nodes.                                         *)
(***************************************************************************)
C32_LocateSkipsVisited ==
    \A l \in calls.locates :
        /\ l.nothing <=> l.blocked
        /\ ~l.nothing => l.there /\ l.made = l.missing
        /\ ~l.visited

\* One locate() has met a visited node and returned nothing, another has
\* created two nodes and returned the node of the path.
C32_Witness ==
    /\ \E l \in calls.locates : l.blocked /\ l.nothing /\ l.made = 0
    /\ \E l \in calls.locates : ~l.nothing /\ l.there /\ l.made = 2

\* The runs of descendants(): the positions of run i.
WalkOf(i) == 1..Len(calls.walks[i])

\* A run of descendants() yields a node before the nodes below it.
WalksPreOrder ==
    \A i \in 1..Len(calls.walks) :
        \A j, k \in WalkOf(i) : j < k => calls.walks[i][k].id \notin calls.walks[i][j].above

\* No node is visited at the moment descendants() yields it.
WalksYieldUnvisited ==
    \A i \in 1..Len(calls.walks) : \A j \in WalkOf(i) : ~calls.walks[i][j].visited

\* No node hangs below a visited node at the moment descendants() yields it.
WalksYieldNoneBelowVisited ==
    \A i \in 1..Len(calls.walks) : \A j \in WalkOf(i) : ~calls.walks[i][j].under

\* A pattern map of the one pattern **/X, in parent-wins mode: of a directory
\* and an entry inside it, the pattern is not given both.
InnerEntryNotYielded ==
    (~distinct /\ Len(config) = 1
        /\ config[1].key \in {<<<<"**", "a">>>>, <<<<"**", "m">>>>}) =>
        \A p, q \in matched : ~StrictPrefix(p, q)

(***************************************************************************)
(* C33.  descendants() is a pre-order traversal that yields a node before  *)
(* any of its descendants and, checked at the moment of yielding, never    *)
(* yields a visited node or a node below a visited node; so when `**/X` in *)
(* non-distinct mode matches both a directory and an entry inside it, the  *)
(* directory is visited first and the inner entry is not yielded.          *)
(***************************************************************************)
C33_PreOrderOfUnvisited ==
    /\ WalksPreOrder
    /\ WalksYieldUnvisited
    /\ WalksYieldNoneBelowVisited
    /\ InnerEntryNotYielded

RECURSIVE Chain(_, _)
\* The node id and the nodes above it, by the parent references, from the
\* node up to the root.
Chain(h, id) == IF h[id].parent = 0 THEN <<id>> ELSE <<id>> \o Chain(h, h[id].parent)

\* The node n levels above node id, the root when there are fewer levels.
LevelsUp(h, id, n) ==
    LET c == Chain(h, id) IN c[IF n + 1 <= Len(c) THEN n + 1 ELSE Len(c)]

(***************************************************************************)
(* C34.  ancestor(n) for n >= 1 returns the node n levels above on the     *)
(* path to the root, and returns the root when the node's depth is smaller *)
(* than n; for the root itself it returns the root for every n (the root   *)
(* is a fixed point).  Read on every node of the tree, for every n up to    *)
(* two levels above the root.                                              *)
(***************************************************************************)
C34_AncestorClampedAtRoot ==
    \A id \in DOMAIN tree : \A n \in 1..(Len(Chain(tree, id)) + 1) :
        /\ ancestor(tree, id, n) = LevelsUp(tree, id, n)
        /\ Len(Chain(tree, id)) - 1 < n => ancestor(tree, id, n) = RootId
        /\ id = RootId => ancestor(tree, id, n) = RootId

\* A ".." branch has run, and the tree holds a node three levels deep: its
\* second ancestor is the node above its parent, its fourth is the root.
C34_Witness ==
    /\ guarded # <<>>
    /\ \E id \in DOMAIN tree :
          /\ Len(Chain(tree, id)) = 4
          /\ ancestor(tree, id, 2) = tree[tree[id].parent].parent
          /\ ancestor(tree, id, 2) # RootId
          /\ ancestor(tree, id, 3) = RootId
          /\ ancestor(tree, id, 4) = RootId

(***************************************************************************)
(* C35.  A node's weight is folded into its parent at most once: calling   *)
(* prune() on a node that has already been removed from its parent's       *)
(* children map (e.g. a node appearing twice in the materialized pre-part  *)
(* of a `..` pattern, or one already removed by a cascading prune) changes *)
(* no weight.  Read on every prune() of a ".." branch.                     *)
(***************************************************************************)
C35_FoldedAtMostOnce ==
    \A p \in calls.prunes : ~p.attached => p.still

\* The nodes of the tree stay: a visited node of the tree is a visited node
\* of the tree after the step, under the same parent.
VisitedStay ==
    [][~distinct =>
          \A n \in DOMAIN tree :
              tree[n].visited =>
                  /\ n \in DOMAIN tree'
                  /\ tree'[n].visited
                  /\ tree'[n].path = tree[n].path
                  /\ tree'[n].parent = tree[n].parent]_vars

\* No subtree collapse() deletes holds a visited node.
NoVisitedCut == ~distinct => \A c \in calls.cuts : ~c.visited

\* No prune() of a ".." branch is made on a visited node that it removes.
NoVisitedPruned == ~distinct => \A p \in calls.prunes : p.visited => p.kept

\* No visited node hangs outside the tree when an iteration of load() or the
\* last visit of the root ends.
NoVisitedLost == ~distinct => calls.lost = {}

Inside(d, l) == l # <<".">> /\ StrictPrefix(d, l)

(***************************************************************************)
(* C37.  In non-distinct mode a directory none of whose descendants was    *)
(* assigned a group by a pattern is emitted as a single path (the          *)
(* directory itself or an ancestor of it), never as a list of its          *)
(* individual entries, whatever patterns were evaluated inside it without  *)
(* producing a match.                                                      *)
(***************************************************************************)
C37_UnmatchedDirectoryWhole ==
    (Done /\ ~distinct) =>
        \A d \in fs.dirs \cup {Root} :
            (~\E p \in matched : StrictPrefix(d, p)) =>
                ~\E i \in 1..Len(Listed) : Inside(d, Listed[i])

(***************************************************************************)
(* C38.  prune_guard is never negative, and it is zero on every node       *)
(* whenever glob_children yields a node or returns: the increments and     *)
(* decrements of a `..` transaction are balanced and no node is yielded in *)
(* between.  Read on every node of the heap before, within and after each  *)
(* transaction, at every yield and at every return of glob_children, and   *)
(* on the tree between the iterations of load().                           *)
(***************************************************************************)
C38_GuardsBalanced ==
    /\ \A v \in calls.guards \cup calls.idle : v >= 0
    /\ calls.idle \subseteq {0}
    /\ \A n \in DOMAIN tree : tree[n].prune_guard = 0

\* A ".." branch has guarded two parents while it pruned, and has yielded
\* them afterwards with every guard back at zero.
C38_Witness ==
    /\ 1 \in calls.guards
    /\ calls.idle = {0}
    /\ \E i \in 1..Len(guarded) : Cardinality(guarded[i]) = 2
    /\ \E i \in 1..Len(psets) : Len(psets[i]) = 2

(***************************************************************************)
(* C39.  In every reachable state, every ancestor of a non-quasi node is   *)
(* non-quasi (equivalently, all descendants of a quasi node are quasi), so *)
(* that observe() may stop at the first non-quasi ancestor and collapse()  *)
(* never deletes a subtree containing a non-quasi or visited node.  Read   *)
(* on the tree, on the heap a method called on its own leaves, and on      *)
(* every subtree collapse() has deleted.                                   *)
(***************************************************************************)
C39_QuasiClosedDownwards ==
    /\ \A n \in DOMAIN tree :
          (~tree[n].quasi /\ tree[n].parent # 0) => ~tree[tree[n].parent].quasi
    /\ probe.op # "none" =>
          \A n \in ReachableFrom(probe.h, RootId) :
              (~probe.h[n].quasi /\ probe.h[n].parent # 0) => ~probe.h[probe.h[n].parent].quasi
    /\ \A c \in calls.cuts : ~c.solid /\ ~c.visited

\* The tree holds quasi nodes, collapse() has deleted quasi subtrees, and a
\* visit called on its own on a quasi node two levels deep has made the node
\* and its parent non-quasi.
C39_Witness ==
    /\ calls.cuts # {}
    /\ probe.op = "visit"
    /\ tree[probe.id].quasi
    /\ tree[probe.id].parent # RootId
    /\ tree[tree[probe.id].parent].quasi
    /\ ~probe.h[probe.id].quasi
    /\ ~probe.h[tree[probe.id].parent].quasi
    /\ \E n \in ReachableFrom(probe.h, RootId) : probe.h[n].quasi

====
